---- MODULE Spec2Model ----
(***************************************************************************)
(* Pilot portal: the client-side views of the fleet dashboard.             *)
(*                                                                         *)
(* One view is mounted at a time (variable view).  The state variables are *)
(* the React state hooks of the views, named as in the source; a hook name *)
(* that several views use (flights, aircraft, isLoading, ...) is one       *)
(* variable, owned by whichever view is mounted.  Each async function of a *)
(* view has a position in pc; every await is a separate step, so that      *)
(* realtime notifications, teardown and other handlers interleave with it. *)
(*                                                                         *)
(* Numbers are fixed-point tenths (24 stands for 2.4 hours).  A numeric    *)
(* field as delivered by the backend is a tagged value, because the code   *)
(* treats a number, a numeric string, a non-numeric string and an absent   *)
(* value differently.                                                      *)
(***************************************************************************)
EXTENDS Integers, Sequences, FiniteSets, TLC

VARIABLES
    view,                   \* the mounted component
    mounted,                \* FALSE once the component has been torn down
    isAdmin,                \* useAuthContext().isAdmin / checkIsAdmin()
    pc,                     \* position of each async function
    flights,                \* useState<Flight[]>       (summary, list)
    flightsRendered,        \* the flights value of the last render (what closures captured)
    aircraft,               \* useState<Aircraft[]>     (summary, analytics)
    pilots,                 \* useState<PilotRecord[]>  (analytics, form)
    aircraftList,           \* useState<Aircraft[]>     (form)
    targetTimes,            \* useState<RouteTargetTime[]> (analytics)
    isLoading,              \* useState<boolean>        (summary, analytics)
    loading,                \* useState<boolean>        (list)
    error,                  \* useState<Error | null>   (list)
    hasError,               \* useState<boolean>        (analytics)
    errorMessage,           \* useState<string>         (analytics)
    isAircraftPilotLoading, \* useState<boolean>        (analytics)
    aircraftPilotError,     \* useState<string | null>  (analytics)
    loadingAircraft,        \* useState<boolean>        (form)
    loadingPilots,          \* useState<boolean>        (form)
    pilotsError,            \* useState<Error | null>   (form)
    deleteDialogOpen,       \* useState<boolean>        (list)
    flightToDelete,         \* useState<string | null>  (list)
    deleteLoading,          \* useState<boolean>        (list)
    closure,                \* what the running confirmDelete captured at its render
    isSubmitting,           \* useState<boolean>        (form)
    existingFlight,         \* useState<Flight | null>  (form)
    loadingFlight,          \* useState<boolean>        (form)
    location,               \* the router's current path
    toast,                  \* the latest transient notification (list, form)
    requests,               \* history: backend calls issued so far
    failed,                 \* history: backend calls whose outcome the code handled as a failure
    lateSetterCalls,        \* history: state setters invoked after teardown
    arrived,                \* history: left fold of the stores and notifications in arrival order
    atStart,                \* history: flights and aircraft as the fetch in flight found them
    trace,                  \* history: the last notification handled (projection only)
    arg,                    \* duration resolver: the flight it is applied to
    out,                    \* duration resolver: where it was applied and what it returned
    selectedMonth,          \* useState<string>         (analytics filter)
    selectedYear,           \* useState<string>         (analytics filter)
    selectedAircraft,       \* useState<string>         (analytics filter)
    selectedPilot,          \* useState<string>         (analytics filter)
    sortField,              \* useState<string>         (analytics table)
    sortDirection,          \* useState<'asc' | 'desc'> (analytics table)
    now,                    \* new Date() at the first render: the local date (passengers)
    timeZone,               \* the browser's time zone, in hours east of UTC (passengers)
    monthlyData,            \* useMemo: the monthly trend as last computed (passengers)
    reports,                \* useState<SafetyReport[]> (safety)
    searchTerm,             \* useState<string>: the search box (safety)
    formValues,             \* useForm: the tach and hobbs fields of the form (form)
    effectDeps,             \* the tach fields at the last run of the hobbsTime effect (form)
    selects                 \* queries of fetchTargetTimes in flight (analytics)

vars == <<view, mounted, isAdmin, pc, flights, flightsRendered, aircraft, pilots, aircraftList,
          targetTimes, isLoading, loading, error, hasError, errorMessage,
          isAircraftPilotLoading, aircraftPilotError, loadingAircraft, loadingPilots,
          pilotsError, deleteDialogOpen, flightToDelete, deleteLoading, closure,
          isSubmitting, existingFlight, loadingFlight, location, toast, requests, failed, lateSetterCalls, arrived,
          atStart, trace, arg, out, selectedMonth, selectedYear, selectedAircraft,
          selectedPilot, sortField, sortDirection, now, timeZone, monthlyData, reports,
          searchTerm,
          formValues, effectDeps, selects>>

\* The variables of the views other than the one an action belongs to.
listOnly      == <<loading, error, deleteDialogOpen, flightToDelete, deleteLoading, closure>>
analyticsOnly == <<targetTimes, hasError, errorMessage, isAircraftPilotLoading,
                   aircraftPilotError, selects>>
formOnly      == <<aircraftList, loadingAircraft, loadingPilots, pilotsError, isSubmitting,
                   existingFlight, loadingFlight, formValues, effectDeps>>
resolverOnly  == <<arg, out, selectedMonth, selectedYear, selectedAircraft, selectedPilot,
                   sortField, sortDirection, now, timeZone, monthlyData, reports, searchTerm>>

\* ------------------------------------------------------------------ bounds

\* Flight identities are 1..MaxFlightId.
MaxFlightId == 2

\* ------------------------------------------------------------------ values

\* null / undefined of a string-valued field.
NULL == "<null>"

\* JavaScript truthiness of a string-or-null value: !s
Falsy(s) == s \in {NULL, ""}

\* A numeric field: a number, a numeric string ("2.4"), a non-numeric string, null
\* (Absent), or undefined (a property the object lacks).
\* Hours, tach readings and quantities are counted in tenths (24 stands for 2.4).
Num(v)  == [t |-> "number", v |-> v]
Str(v)  == [t |-> "string", v |-> v]
Text    == [t |-> "text",   v |-> 0]
Absent  == [t |-> "absent", v |-> 0]
Undefined == [t |-> "undefined", v |-> 0]

\* No flight selected (flightToDelete === null); flight identities start at 1.
NoId == 0

\* No record at hand.
NoArg == [id |-> NoId]

\* ------------------------------------------------------------------ wire rows

Date(y, m, d) == [y |-> y, m |-> m, d |-> d]

\* Payload of a flights row as the realtime channel delivers it (snake_case).
PayloadA ==
    [aircraft_id |-> "X", pilot_id |-> "p1", date |-> Date(2025, 3, 14),
     tach_start |-> Num(100), tach_end |-> Num(120), hobbs_time |-> Num(24),
     fuel_added |-> Num(50), oil_added |-> Num(0), passenger_count |-> Num(2),
     route |-> "ABC", squawks |-> "", notes |-> "", created_at |-> "t1",
     updated_at |-> "t1", category |-> "SF", departure_time |-> "08:00",
     pilot_name |-> "Ann"]

PayloadB ==
    [aircraft_id |-> NULL, pilot_id |-> "p2", date |-> Date(2025, 4, 2),
     tach_start |-> Num(120), tach_end |-> Num(100), hobbs_time |-> Absent,
     fuel_added |-> Absent, oil_added |-> Absent, passenger_count |-> Absent,
     route |-> NULL, squawks |-> NULL, notes |-> NULL, created_at |-> "t1",
     updated_at |-> "t2", category |-> NULL, departure_time |-> NULL,
     pilot_name |-> NULL]

PayloadC ==
    [aircraft_id |-> "Y", pilot_id |-> "p1", date |-> Date(2024, 12, 30),
     tach_start |-> Str(100), tach_end |-> Str(120), hobbs_time |-> Str(15),
     fuel_added |-> Num(30), oil_added |-> Num(1), passenger_count |-> Str(3),
     route |-> "", squawks |-> "", notes |-> "n", created_at |-> "t0",
     updated_at |-> "t0", category |-> "135", departure_time |-> "",
     pilot_name |-> "Bob"]

FlightRow(i, p) ==
    [id |-> i, aircraft_id |-> p.aircraft_id, pilot_id |-> p.pilot_id, date |-> p.date,
     tach_start |-> p.tach_start, tach_end |-> p.tach_end, hobbs_time |-> p.hobbs_time,
     fuel_added |-> p.fuel_added, oil_added |-> p.oil_added,
     passenger_count |-> p.passenger_count, route |-> p.route, squawks |-> p.squawks,
     notes |-> p.notes, created_at |-> p.created_at, updated_at |-> p.updated_at,
     category |-> p.category, departure_time |-> p.departure_time,
     pilot_name |-> p.pilot_name]

FlightIds == 1..MaxFlightId

\* The rows of the flights table the backend can deliver: flight 1 in two versions
\* (so that an update is visible), every other flight in one.
FlightRows ==
    {FlightRow(1, PayloadA), FlightRow(1, PayloadB)}
        \cup {FlightRow(i, PayloadC) : i \in FlightIds \ {1}}

\* Rows of the aircraft table: aircraft "X" in two versions, "Y" in one.
AircraftRow(i, tail, make, type) ==
    [id |-> i, tail_number |-> tail, make |-> make, model |-> "M", year |-> 1999,
     type |-> type, category |-> "SF", tach_time |-> Num(1000), oil_change |-> Num(1025),
     last_annual |-> "2025-01-01", ownership |-> "owned", image_url |-> NULL,
     created_at |-> "t0", updated_at |-> "t0"]

AircraftIds == {"X", "Y"}

AircraftRows ==
    {AircraftRow("X", "N1", "Cessna", "single"), AircraftRow("X", "N1X", "Cessna", NULL),
     AircraftRow("Y", "N2", "", "")}

\* ------------------------------------------------------------------ sequences

RECURSIVE SeqsNoRepeat(_, _)
\* Sequences of at most n elements of S in which no identity occurs twice.
SeqsNoRepeat(S, n) ==
    IF n = 0 THEN {<< >>}
    ELSE LET shorter == SeqsNoRepeat(S, n - 1)
             longest == {q \in shorter : Len(q) = n - 1}
         IN  shorter \cup
             UNION {{Append(q, x) : x \in {y \in S : \A i \in 1..Len(q) : q[i].id # y.id}}
                    : q \in longest}

Ids(list) == {list[i].id : i \in 1..Len(list)}

\* Array.prototype.some with an identity test.
SomeId(list, id) == \E i \in 1..Len(list) : list[i].id = id

\* ------------------------------------------------------------------ backend results

\* What a service call (getAllFlights, getAllAircraft, ...) resolves to:
\* { success, <data>, error }, or a rejected promise (thrown).
Ok(list) == [thrown |-> FALSE, success |-> TRUE,  present |-> TRUE,  data |-> list,   error |-> FALSE]
Err      == [thrown |-> FALSE, success |-> FALSE, present |-> FALSE, data |-> << >>, error |-> TRUE]
Silent   == [thrown |-> FALSE, success |-> FALSE, present |-> FALSE, data |-> << >>, error |-> FALSE]
OkNoData == [thrown |-> FALSE, success |-> TRUE,  present |-> FALSE, data |-> << >>, error |-> FALSE]
Thrown   == [thrown |-> TRUE,  success |-> FALSE, present |-> FALSE, data |-> << >>, error |-> FALSE]

Results(lists) == {Ok(l) : l \in lists} \cup {Err, Silent, OkNoData, Thrown}

\* A mutation (create, update, delete) resolves to { success, error } or is rejected.
MutationResults == {Ok(<< >>), Err, Silent, Thrown}

\* A fetch written if (success && data) ... else ... catch: the else branch or the catch
\* runs (the call was rejected, or its result is not a success with data).
Failure(res) == res.thrown \/ ~(res.success /\ res.present)

\* The results on which that else branch or that catch runs.
Failures == {Err, Silent, OkNoData, Thrown}

\* A fetch written if (success && data) ... else if (error) ... catch: the error branch
\* or the catch runs; on a result without data and without error no branch does.
errorReported(res) == res.thrown \/ (~(res.success /\ res.present) /\ res.error)

\* if (!result.success) throw ..., and the else of if (success): the call was rejected
\* or its result is not a success.
Unsuccessful(res) == res.thrown \/ ~res.success

\* The results that are not a success, and the rejection.
Rejected == {Err, Silent, Thrown}

\* A result stored whatever it is, data or none.
anyResult(res) == TRUE

\* if (success && fetchedFlights): the result of a fetch carries data to store.
hasData(res) == ~res.thrown /\ res.success /\ res.present

\* A mutation taken to have succeeded whenever the call returns.
returned(res) == ~res.thrown

\* if (success): the mutation went through.
succeeded(res) == ~res.thrown /\ res.success

\* ------------------------------------------------------------------ FlightSummaryOverview

\* The Flight built from a flights row (the object literal of onInsert and of onUpdate).
toFlight(newFlight) ==
    [id |-> newFlight.id,
     aircraftId |-> newFlight.aircraft_id,
     pilotId |-> newFlight.pilot_id,
     date |-> newFlight.date,
     tachStart |-> newFlight.tach_start,
     tachEnd |-> newFlight.tach_end,
     hobbsTime |-> newFlight.hobbs_time,
     fuelAdded |-> newFlight.fuel_added,
     oilAdded |-> newFlight.oil_added,
     passengerCount |-> newFlight.passenger_count,
     route |-> newFlight.route,
     squawks |-> newFlight.squawks,
     notes |-> newFlight.notes,
     createdAt |-> newFlight.created_at,
     updatedAt |-> newFlight.updated_at,
     category |-> newFlight.category,
     departureTime |-> newFlight.departure_time,
     pilotName |-> newFlight.pilot_name]

\* The object the aircraft handlers hand to normalizeAircraft.
toAircraftInput(newAircraft) ==
    [id |-> newAircraft.id,
     tailNumber |-> newAircraft.tail_number,
     tail_number |-> newAircraft.tail_number,
     make |-> newAircraft.make,
     model |-> newAircraft.model,
     year |-> newAircraft.year,
     type |-> IF ~Falsy(newAircraft.type) THEN newAircraft.type
              ELSE IF ~Falsy(newAircraft.make) THEN newAircraft.make
              ELSE "unknown",
     category |-> newAircraft.category,
     tachTime |-> newAircraft.tach_time,
     oilChange |-> newAircraft.oil_change,
     lastAnnual |-> newAircraft.last_annual,
     ownership |-> newAircraft.ownership,
     imageUrl |-> newAircraft.image_url,
     createdAt |-> newAircraft.created_at,
     updatedAt |-> newAircraft.updated_at]

\* utils/aircraftUtils is not part of the sources at hand: normalizeAircraft is taken
\* to keep the identity and every field, filling tailNumber from tail_number.
normalizeAircraft(a) ==
    [a EXCEPT !.tailNumber = IF Falsy(a.tailNumber) THEN a.tail_number ELSE a.tailNumber]

normalizeAircraftArray(list) == [i \in 1..Len(list) |-> normalizeAircraft(list[i])]

\* An aircraft as getAllAircraft returns it (tailNumber not yet filled in).
RawAircraft(row) == [toAircraftInput(row) EXCEPT !.tailNumber = NULL]

FetchedFlightLists == SeqsNoRepeat({toFlight(r) : r \in FlightRows}, MaxFlightId)

FetchedAircraftLists == SeqsNoRepeat({RawAircraft(r) : r \in AircraftRows}, Cardinality(AircraftIds))

\* The state a functional updater, setFlights(prev => ...), is applied to: the latest
\* state, with every earlier queued update applied, not the value the handler's closure
\* saw at the last render.
staleState(latest, rendered) == rendered

prevState(latest, rendered) == latest

\* An onInsert without the duplicate test: it appends on every delivery.
insertAlways(prevFlights, newFlight) == Append(prevFlights, toFlight(newFlight))

\* flights subscription, onInsert: the updater passed to setFlights.
flightsOnInsert(prevFlights, newFlight) ==
    IF SomeId(prevFlights, newFlight.id) THEN prevFlights
    ELSE Append(prevFlights, toFlight(newFlight))

\* An onUpdate that inserts the record when no element has its id (an upsert).
updateOrInsert(prevFlights, updatedFlight) ==
    IF SomeId(prevFlights, updatedFlight.id)
    THEN [i \in 1..Len(prevFlights) |->
             IF prevFlights[i].id = updatedFlight.id THEN toFlight(updatedFlight)
             ELSE prevFlights[i]]
    ELSE Append(prevFlights, toFlight(updatedFlight))

\* flights subscription, onUpdate.
flightsOnUpdate(prevFlights, updatedFlight) ==
    [i \in 1..Len(prevFlights) |->
        IF prevFlights[i].id = updatedFlight.id THEN toFlight(updatedFlight)
        ELSE prevFlights[i]]

\* An onDelete that removes the first element whatever its id.
deleteFirst(prevFlights, deletedFlight) ==
    IF prevFlights = << >> THEN prevFlights ELSE Tail(prevFlights)

\* flights subscription, onDelete.
flightsOnDelete(prevFlights, deletedFlight) ==
    SelectSeq(prevFlights, LAMBDA flight : flight.id # deletedFlight.id)

\* An aircraft onInsert without the duplicate test.
aircraftInsertAlways(prevAircraft, newAircraft) ==
    Append(prevAircraft, normalizeAircraft(toAircraftInput(newAircraft)))

\* aircraft subscription, onInsert.
aircraftOnInsert(prevAircraft, newAircraft) ==
    IF SomeId(prevAircraft, newAircraft.id) THEN prevAircraft
    ELSE Append(prevAircraft, normalizeAircraft(toAircraftInput(newAircraft)))

\* aircraft subscription, onUpdate.
aircraftOnUpdate(prevAircraft, updatedAircraft) ==
    [i \in 1..Len(prevAircraft) |->
        IF prevAircraft[i].id = updatedAircraft.id
        THEN normalizeAircraft(toAircraftInput(updatedAircraft))
        ELSE prevAircraft[i]]

\* aircraft subscription, onDelete.
aircraftOnDelete(prevAircraft, deletedAircraft) ==
    SelectSeq(prevAircraft, LAMBDA a : a.id # deletedAircraft.id)

\* The summary's toasts and console output are outputs only; no handler reads them, and
\* they are left out of its steps.

\* A state setter called on a torn-down component changes nothing.
Set(current, new) == IF mounted THEN new ELSE current

\* The setters `names` are invoked now: recorded when the component is gone.
Late(names) == IF mounted THEN lateSetterCalls ELSE lateSetterCalls \cup names

\* navigate(path) of useNavigate, called by a click handler: the router is sent to the
\* path and no state of the view is touched.
Navigate(path) ==
    /\ location' = path
    /\ UNCHANGED <<view, mounted, isAdmin, pc, flights, flightsRendered, aircraft, pilots,
                   isLoading, toast, requests, failed, lateSetterCalls, arrived, atStart,
                   trace>>
    /\ UNCHANGED <<listOnly, analyticsOnly, formOnly, resolverOnly>>

\* The path of the form of a flight: `/flights/${id}`.
FlightPath(id) == "/flights/" \o ToString(id)

\* The log of the last change to a collection of the summary (what arrived, and the
\* collection it was applied to), kept only where it was switched on initially.
Log(table, op, record, before) ==
    IF trace.on
    THEN [on |-> TRUE, table |-> table, op |-> op, record |-> record, before |-> before]
    ELSE trace

Summary == "FlightSummaryOverview"

\* useEffect(() => { fetchData() }, []): fetchData up to its first await.
FetchData ==
    /\ view = Summary /\ mounted
    /\ pc.fetchData = "idle"
    /\ isLoading' = TRUE
    /\ requests' = requests \cup {"getAllFlights"}
    /\ atStart' = [atStart EXCEPT !.flights = flights, !.aircraft = aircraft]
    /\ pc' = [pc EXCEPT !.fetchData = "getAllFlights"]
    /\ UNCHANGED <<view, mounted, isAdmin, flights, flightsRendered, aircraft, pilots, toast,
                   failed, lateSetterCalls, arrived, trace, location>>
    /\ UNCHANGED <<listOnly, analyticsOnly, formOnly, resolverOnly>>

\* A fetchData that keeps the flights it finds in place and not in the result.
FetchDataFlightsMerged(res) ==
    LET stored == hasData(res) IN
    /\ view = Summary
    /\ pc.fetchData = "getAllFlights"
    /\ flights' = IF stored
                  THEN Set(flights, res.data \o SelectSeq(flights, LAMBDA f :
                                                             ~SomeId(res.data, f.id)))
                  ELSE flights
    /\ arrived' = IF stored /\ mounted THEN [arrived EXCEPT !.flights = res.data] ELSE arrived
    /\ failed' = IF errorReported(res) THEN failed \cup {"getAllFlights"} ELSE failed
    /\ IF res.thrown
       THEN /\ isLoading' = Set(isLoading, FALSE)
            /\ lateSetterCalls' = Late({"setIsLoading"})
            /\ pc' = [pc EXCEPT !.fetchData = "done"]
            /\ UNCHANGED requests
       ELSE /\ lateSetterCalls' = Late(IF stored THEN {"setFlights"} ELSE {})
            /\ requests' = requests \cup {"getAllAircraft"}
            /\ pc' = [pc EXCEPT !.fetchData = "getAllAircraft"]
            /\ UNCHANGED isLoading
    /\ trace' = Log("flights", "FETCH", NoArg, flights)
    /\ UNCHANGED <<view, mounted, isAdmin, flightsRendered, aircraft, pilots, toast, atStart,
                   location>>
    /\ UNCHANGED <<listOnly, analyticsOnly, formOnly, resolverOnly>>

\* fetchData from the result of getAllFlights to its second await; a rejected promise
\* goes to catch and finally.
FetchDataFlights(res) ==
    LET stored == hasData(res) IN
    /\ view = Summary
    /\ pc.fetchData = "getAllFlights"
    /\ flights' = IF stored THEN Set(flights, res.data) ELSE flights
    /\ arrived' = IF stored /\ mounted THEN [arrived EXCEPT !.flights = res.data] ELSE arrived
    /\ failed' = IF errorReported(res) THEN failed \cup {"getAllFlights"} ELSE failed
    /\ IF res.thrown
       THEN /\ isLoading' = Set(isLoading, FALSE)
            /\ lateSetterCalls' = Late({"setIsLoading"})
            /\ pc' = [pc EXCEPT !.fetchData = "done"]
            /\ UNCHANGED requests
       ELSE /\ lateSetterCalls' = Late(IF stored THEN {"setFlights"} ELSE {})
            /\ requests' = requests \cup {"getAllAircraft"}
            /\ pc' = [pc EXCEPT !.fetchData = "getAllAircraft"]
            /\ UNCHANGED isLoading
    /\ trace' = Log("flights", "FETCH", NoArg, flights)
    /\ UNCHANGED <<view, mounted, isAdmin, flightsRendered, aircraft, pilots, toast, atStart,
                   location>>
    /\ UNCHANGED <<listOnly, analyticsOnly, formOnly, resolverOnly>>

\* fetchData from the result of getAllAircraft to its end.
FetchDataAircraft(res) ==
    LET stored == hasData(res) IN
    /\ view = Summary
    /\ pc.fetchData = "getAllAircraft"
    /\ aircraft' = IF stored THEN Set(aircraft, normalizeAircraftArray(res.data)) ELSE aircraft
    /\ arrived' = IF stored /\ mounted
                  THEN [arrived EXCEPT !.aircraft = normalizeAircraftArray(res.data)]
                  ELSE arrived
    /\ failed' = IF errorReported(res) THEN failed \cup {"getAllAircraft"} ELSE failed
    /\ isLoading' = Set(isLoading, FALSE)
    /\ lateSetterCalls' = Late((IF stored THEN {"setAircraft"} ELSE {}) \cup {"setIsLoading"})
    /\ pc' = [pc EXCEPT !.fetchData = "done"]
    /\ trace' = Log("aircraft", "FETCH", NoArg, aircraft)
    /\ UNCHANGED <<view, mounted, isAdmin, flights, flightsRendered, pilots, toast, requests,
                   atStart, location>>
    /\ UNCHANGED <<listOnly, analyticsOnly, formOnly, resolverOnly>>

\* The subscriptions are set up by the effects of the first render, after the effect
\* that starts fetchData, and end with the component.
Subscribed == view = Summary /\ mounted /\ pc.fetchData # "idle"

\* What a realtime handler of the summary leaves alone.
SummaryHandlerFrame ==
    /\ UNCHANGED <<view, mounted, isAdmin, pc, flightsRendered, pilots, isLoading, toast,
                   requests, failed, lateSetterCalls, atStart, location>>
    /\ UNCHANGED <<listOnly, analyticsOnly, formOnly, resolverOnly>>

\* flights subscription: an INSERT notification is handled.
FlightInserted(newFlight) ==
    /\ Subscribed
    /\ flights' = flightsOnInsert(prevState(flights, flightsRendered), newFlight)
    /\ arrived' = [arrived EXCEPT !.flights = flightsOnInsert(@, newFlight)]
    /\ trace' = Log("flights", "INSERT", newFlight, flights)
    /\ UNCHANGED aircraft
    /\ SummaryHandlerFrame

\* flights subscription: an UPDATE notification is handled.
FlightUpdated(updatedFlight) ==
    /\ Subscribed
    /\ flights' = flightsOnUpdate(prevState(flights, flightsRendered), updatedFlight)
    /\ arrived' = [arrived EXCEPT !.flights = flightsOnUpdate(@, updatedFlight)]
    /\ trace' = Log("flights", "UPDATE", updatedFlight, flights)
    /\ UNCHANGED aircraft
    /\ SummaryHandlerFrame

\* flights subscription: a DELETE notification is handled.
FlightDeleted(deletedFlight) ==
    /\ Subscribed
    /\ flights' = flightsOnDelete(prevState(flights, flightsRendered), deletedFlight)
    /\ arrived' = [arrived EXCEPT !.flights = flightsOnDelete(@, deletedFlight)]
    /\ trace' = Log("flights", "DELETE", deletedFlight, flights)
    /\ UNCHANGED aircraft
    /\ SummaryHandlerFrame

\* aircraft subscription: an INSERT notification is handled.
AircraftInserted(newAircraft) ==
    /\ Subscribed
    /\ aircraft' = aircraftOnInsert(aircraft, newAircraft)
    /\ arrived' = [arrived EXCEPT !.aircraft = aircraftOnInsert(@, newAircraft)]
    /\ trace' = Log("aircraft", "INSERT", newAircraft, aircraft)
    /\ UNCHANGED flights
    /\ SummaryHandlerFrame

\* aircraft subscription: an UPDATE notification is handled.
AircraftUpdated(updatedAircraft) ==
    /\ Subscribed
    /\ aircraft' = aircraftOnUpdate(aircraft, updatedAircraft)
    /\ arrived' = [arrived EXCEPT !.aircraft = aircraftOnUpdate(@, updatedAircraft)]
    /\ trace' = Log("aircraft", "UPDATE", updatedAircraft, aircraft)
    /\ UNCHANGED flights
    /\ SummaryHandlerFrame

\* aircraft subscription: a DELETE notification is handled.
AircraftDeleted(deletedAircraft) ==
    /\ Subscribed
    /\ aircraft' = aircraftOnDelete(aircraft, deletedAircraft)
    /\ arrived' = [arrived EXCEPT !.aircraft = aircraftOnDelete(@, deletedAircraft)]
    /\ trace' = Log("aircraft", "DELETE", deletedAircraft, aircraft)
    /\ UNCHANGED flights
    /\ SummaryHandlerFrame

\* React renders the summary with the latest state; the handlers created by this render
\* close over it.
RenderSummary ==
    /\ view = Summary /\ mounted
    /\ flightsRendered # flights
    /\ flightsRendered' = flights
    /\ UNCHANGED <<view, mounted, isAdmin, pc, flights, aircraft, pilots, isLoading, toast,
                   requests, failed, lateSetterCalls, arrived, atStart, trace, location>>
    /\ UNCHANGED <<listOnly, analyticsOnly, formOnly, resolverOnly>>

\* The mounted view is torn down (the user navigates away); its subscriptions end with it.
Unmount ==
    /\ view # "resolver"
    /\ mounted
    /\ mounted' = FALSE
    /\ UNCHANGED <<view, isAdmin, pc, flights, flightsRendered, aircraft, pilots, isLoading,
                   toast, requests, failed, lateSetterCalls, arrived, atStart, trace, location>>
    /\ UNCHANGED <<listOnly, analyticsOnly, formOnly, resolverOnly>>

\* ------------------------------------------------------------------ FlightList

List == "FlightList"

\* What a step of the list leaves alone.
ListFrame ==
    /\ UNCHANGED <<view, mounted, isAdmin, flightsRendered, aircraft, pilots, isLoading,
                   arrived, trace, location>>
    /\ UNCHANGED <<analyticsOnly, formOnly, resolverOnly>>

\* fetchFlights up to its await: called by the mount effect, and by handleRetry from the
\* error view (rendered when loading is false and error is set).
FetchFlights ==
    /\ view = List /\ mounted
    /\ \/ pc.fetchFlights = "idle"
       \/ pc.fetchFlights = "done" /\ ~loading /\ error # NULL
    /\ loading' = TRUE
    /\ error' = NULL
    /\ requests' = requests \cup {"getAllFlights"}
    /\ atStart' = [atStart EXCEPT !.flights = flights]
    /\ pc' = [pc EXCEPT !.fetchFlights = "getAllFlights"]
    /\ UNCHANGED <<flights, deleteDialogOpen, flightToDelete, deleteLoading, closure, toast,
                   failed, lateSetterCalls>>
    /\ ListFrame

\* fetchFlights from the result of getAllFlights to its end.
FetchFlightsResult(res) ==
    LET stored == hasData(res) IN
    /\ view = List
    /\ pc.fetchFlights = "getAllFlights"
    /\ flights' = IF stored THEN Set(flights, res.data) ELSE flights
    /\ error' = IF stored THEN error
                ELSE Set(error, IF res.thrown THEN "An unknown error occurred"
                                ELSE "Failed to load flight data")
    /\ toast' = IF stored THEN toast ELSE "Failed to load flight data. Please try again later."
    /\ failed' = IF Failure(res) THEN failed \cup {"getAllFlights"} ELSE failed
    /\ loading' = Set(loading, FALSE)
    /\ lateSetterCalls' = Late((IF stored THEN {"setFlights"} ELSE {"setError"})
                               \cup {"setLoading"})
    /\ pc' = [pc EXCEPT !.fetchFlights = "done"]
    /\ UNCHANGED <<deleteDialogOpen, flightToDelete, deleteLoading, closure, requests, atStart>>
    /\ ListFrame

\* handleDeleteClick: the delete button of a row, rendered for an administrator in the
\* loaded view.
HandleDeleteClick(id) ==
    /\ view = List /\ mounted
    /\ ~loading /\ error = NULL /\ isAdmin
    /\ ~deleteDialogOpen
    /\ SomeId(flights, id)
    /\ flightToDelete' = id
    /\ deleteDialogOpen' = TRUE
    /\ UNCHANGED <<pc, flights, loading, error, deleteLoading, closure, toast, requests,
                   failed, lateSetterCalls, atStart>>
    /\ ListFrame

\* handleNewFlightClick: the New Flight button of the error view and of the loaded
\* view (the dialog, when open, is modal).
HandleNewFlightClick ==
    /\ view = List /\ mounted
    /\ ~loading /\ ~deleteDialogOpen
    /\ Navigate("/flights/new")

\* handleFlightClick: a click on a row, or on its view button, in the loaded view.
HandleFlightClick(id) ==
    /\ view = List /\ mounted
    /\ ~loading /\ error = NULL /\ ~deleteDialogOpen
    /\ SomeId(flights, id)
    /\ Navigate(FlightPath(id))

\* handleEditClick: the edit button of a row, rendered for an administrator.
HandleEditClick(id) ==
    /\ view = List /\ mounted
    /\ ~loading /\ error = NULL /\ isAdmin /\ ~deleteDialogOpen
    /\ SomeId(flights, id)
    /\ Navigate(FlightPath(id))

\* The dialog is dismissed: onOpenChange(false), by the Cancel button (disabled while
\* deleting) or by the Escape key (at any time).
CancelDelete ==
    /\ view = List /\ mounted
    /\ deleteDialogOpen
    /\ deleteDialogOpen' = FALSE
    /\ UNCHANGED <<pc, flights, loading, error, flightToDelete, deleteLoading, closure, toast,
                   requests, failed, lateSetterCalls, atStart>>
    /\ ListFrame

\* confirmDelete up to its await; the running call keeps the flights and flightToDelete
\* of the render it was created in.
ConfirmDelete ==
    /\ view = List /\ mounted
    /\ deleteDialogOpen /\ ~deleteLoading
    /\ flightToDelete # NoId
    /\ deleteLoading' = TRUE
    /\ closure' = [flights |-> flights, flightToDelete |-> flightToDelete]
    /\ requests' = requests \cup {"deleteFlight"}
    /\ pc' = [pc EXCEPT !.confirmDelete = "deleteFlight"]
    /\ UNCHANGED <<flights, loading, error, deleteDialogOpen, flightToDelete, toast, failed,
                   lateSetterCalls, atStart>>
    /\ ListFrame

\* confirmDelete from the result of deleteFlight to its end.
ConfirmDeleteResult(res) ==
    LET success == succeeded(res) IN
    /\ view = List
    /\ pc.confirmDelete = "deleteFlight"
    /\ flights' = IF success
                  THEN Set(flights, SelectSeq(closure.flights,
                                              LAMBDA flight : flight.id # closure.flightToDelete))
                  ELSE flights
    /\ toast' = IF success THEN "Flight deleted successfully"
                ELSE "Failed to delete flight. Please try again later."
    /\ failed' = IF success THEN failed ELSE failed \cup {"deleteFlight"}
    /\ deleteLoading' = Set(deleteLoading, FALSE)
    /\ deleteDialogOpen' = Set(deleteDialogOpen, FALSE)
    /\ flightToDelete' = Set(flightToDelete, NoId)
    /\ lateSetterCalls' = Late((IF success THEN {"setFlights"} ELSE {})
                               \cup {"setDeleteLoading", "setDeleteDialogOpen",
                                     "setFlightToDelete"})
    /\ pc' = [pc EXCEPT !.confirmDelete = "done"]
    /\ UNCHANGED <<loading, error, closure, requests, atStart>>
    /\ ListFrame

\* ------------------------------------------------------------------ RouteAnalyticsContent

Analytics == "RouteAnalyticsContent"

\* Target identities are 1..MaxTargetId.
MaxTargetId == 2

\* No month / no year (null) of a target.
NoPeriod == 0

\* Rows of route_target_times: the first two share their route, the others have a
\* target of 0 scoped to a month and a year.
TargetRow(i) ==
    [id |-> i,
     route |-> IF i <= 2 THEN "ABC" ELSE "XYZ",
     target_time |-> IF i = 1 THEN 15 ELSE IF i = 2 THEN 20 ELSE 0,
     aircraft_id |-> IF i = 1 THEN "" ELSE IF i = 2 THEN "X" ELSE NULL,
     pilot_id |-> NULL,
     month |-> IF i <= 2 THEN NoPeriod ELSE 3,
     year |-> IF i <= 2 THEN NoPeriod ELSE 2025,
     created_at |-> "t0", updated_at |-> "t0"]

TargetRows == {TargetRow(i) : i \in 1..MaxTargetId}

\* The RouteTargetTime built from a row (data.map in fetchTargetTimes); x || null.
formatTarget(item) ==
    [id |-> item.id,
     route |-> item.route,
     targetTime |-> item.target_time,
     aircraftId |-> IF Falsy(item.aircraft_id) THEN NULL ELSE item.aircraft_id,
     pilotId |-> IF Falsy(item.pilot_id) THEN NULL ELSE item.pilot_id,
     month |-> item.month,
     year |-> item.year,
     createdAt |-> item.created_at,
     updatedAt |-> item.updated_at]

TargetRowLists == SeqsNoRepeat(TargetRows, MaxTargetId)

\* The target lists the view can be constructed with (the targets prop).
TargetLists == SeqsNoRepeat({formatTarget(r) : r \in TargetRows}, MaxTargetId)

\* The target lists the parent or a child hands over later: no target, or one.
HandedTargetLists == SeqsNoRepeat({formatTarget(r) : r \in TargetRows}, 1)

PilotRecords == {[id |-> "p1", name |-> "Ann"], [id |-> "p2", name |-> "Bob"]}

\* What getAllPilots answers with: no pilot or one.
PilotLists == SeqsNoRepeat(PilotRecords, 1)

\* What getAllAircraft answers the analytics and the form with: no aircraft or one.
AircraftLists == SeqsNoRepeat({RawAircraft(r) : r \in AircraftRows}, 1)

\* What a step of the analytics view leaves alone.
AnalyticsFrame ==
    /\ UNCHANGED <<view, mounted, flights, flightsRendered, arrived, trace, location>>
    /\ UNCHANGED <<listOnly, formOnly, resolverOnly>>

\* useEffect on propIsLoading (not passed by the parent: false): checkAdmin is started
\* and isLoading is set from the prop.
AnalyticsEffect ==
    /\ view = Analytics /\ mounted
    /\ pc.checkAdmin = "idle"
    /\ isLoading' = FALSE
    /\ requests' = requests \cup {"checkIsAdmin"}
    /\ pc' = [pc EXCEPT !.checkAdmin = "checkIsAdmin"]
    /\ UNCHANGED <<isAdmin, aircraft, pilots, toast, failed, lateSetterCalls, atStart>>
    /\ UNCHANGED analyticsOnly
    /\ AnalyticsFrame

\* checkAdmin after its await.
CheckAdminResult(admin) ==
    /\ view = Analytics
    /\ pc.checkAdmin = "checkIsAdmin"
    /\ isAdmin' = Set(isAdmin, admin)
    /\ lateSetterCalls' = Late({"setIsAdmin"})
    /\ pc' = [pc EXCEPT !.checkAdmin = "done"]
    /\ UNCHANGED <<aircraft, pilots, isLoading, toast, requests, failed, atStart>>
    /\ UNCHANGED analyticsOnly
    /\ AnalyticsFrame

\* fetchAircraftAndPilots up to its first await: called by the mount effect, and by
\* handleRetryFetch (the Retry button, shown with aircraftPilotError, disabled while loading).
FetchAircraftAndPilots ==
    /\ view = Analytics /\ mounted
    /\ \/ pc.fetchAircraftAndPilots = "idle"
       \/ /\ pc.fetchAircraftAndPilots = "done"
          /\ aircraftPilotError # NULL /\ ~isAircraftPilotLoading
    /\ isAircraftPilotLoading' = TRUE
    /\ aircraftPilotError' = NULL
    /\ requests' = requests \cup {"getAllAircraft"}
    /\ pc' = [pc EXCEPT !.fetchAircraftAndPilots = "getAllAircraft"]
    /\ UNCHANGED <<isAdmin, aircraft, pilots, targetTimes, isLoading, hasError, errorMessage,
                   toast, failed, lateSetterCalls, atStart, selects>>
    /\ AnalyticsFrame

\* fetchAircraftAndPilots from the result of getAllAircraft: an unsuccessful result is
\* thrown, and catch and finally end the function; otherwise the aircraft are stored and
\* getAllPilots is awaited.  catch shows error.message: the message of the error result,
\* the literal of the throw for a result without one, and its own literal for a
\* rejection, which is taken to carry no message.
AnalyticsAircraft(res) ==
    /\ view = Analytics
    /\ pc.fetchAircraftAndPilots = "getAllAircraft"
    /\ IF Unsuccessful(res)
       THEN /\ aircraftPilotError' =
                   Set(aircraftPilotError,
                       IF res.thrown THEN "Failed to load aircraft and pilot data."
                       ELSE IF res.error THEN "error.message"
                       ELSE "Failed to fetch aircraft data")
            /\ toast' = "Failed to load aircraft and pilot data."
            /\ failed' = failed \cup {"getAllAircraft"}
            /\ isAircraftPilotLoading' = Set(isAircraftPilotLoading, FALSE)
            /\ lateSetterCalls' = Late({"setAircraftPilotError", "setIsAircraftPilotLoading"})
            /\ pc' = [pc EXCEPT !.fetchAircraftAndPilots = "done"]
            /\ UNCHANGED <<aircraft, requests>>
       ELSE /\ aircraft' = Set(aircraft, IF res.present THEN res.data ELSE << >>)
            /\ lateSetterCalls' = Late({"setAircraft"})
            /\ requests' = requests \cup {"getAllPilots"}
            /\ pc' = [pc EXCEPT !.fetchAircraftAndPilots = "getAllPilots"]
            /\ UNCHANGED <<aircraftPilotError, toast, failed, isAircraftPilotLoading>>
    /\ UNCHANGED <<isAdmin, pilots, targetTimes, isLoading, hasError, errorMessage, atStart, selects>>
    /\ AnalyticsFrame

\* fetchAircraftAndPilots from the result of getAllPilots to its end.
AnalyticsPilots(res) ==
    LET ok == ~Unsuccessful(res) IN
    /\ view = Analytics
    /\ pc.fetchAircraftAndPilots = "getAllPilots"
    /\ pilots' = IF ok THEN Set(pilots, IF res.present THEN res.data ELSE << >>) ELSE pilots
    /\ aircraftPilotError' = IF ok THEN aircraftPilotError
                             ELSE Set(aircraftPilotError,
                                      IF res.thrown
                                      THEN "Failed to load aircraft and pilot data."
                                      ELSE IF res.error THEN "error.toString()"
                                      ELSE "Failed to fetch pilots data")
    /\ toast' = IF ok THEN toast ELSE "Failed to load aircraft and pilot data."
    /\ failed' = IF ok THEN failed ELSE failed \cup {"getAllPilots"}
    /\ isAircraftPilotLoading' = Set(isAircraftPilotLoading, FALSE)
    /\ lateSetterCalls' = Late((IF ok THEN {"setPilots"} ELSE {"setAircraftPilotError"})
                               \cup {"setIsAircraftPilotLoading"})
    /\ pc' = [pc EXCEPT !.fetchAircraftAndPilots = "done"]
    /\ UNCHANGED <<isAdmin, aircraft, targetTimes, isLoading, hasError, errorMessage, requests,
                   atStart, selects>>
    /\ AnalyticsFrame

\* The most queries of fetchTargetTimes followed in flight at a time.
MaxSelects == 2

\* fetchTargetTimes up to its await.  The callback is made anew for every value of
\* isLoading (useCallback, dependencies [toast, isLoading]) and returns at once when the
\* isLoading of the render it was made in is true: `rendered` is that value, the
\* current one for the Refresh button and for a child calling the refetchTargetTimes it
\* was last handed, or the false of an earlier render for a child that kept the callback
\* over an await of its own (isLoading is false after the first effect).
FetchTargetTimes(rendered) ==
    /\ view = Analytics /\ mounted
    /\ pc.checkAdmin # "idle"
    /\ rendered \in {isLoading, FALSE}
    /\ ~rendered
    /\ selects < MaxSelects
    /\ isLoading' = TRUE
    /\ hasError' = FALSE
    /\ errorMessage' = ""
    /\ requests' = requests \cup {"route_target_times"}
    /\ selects' = selects + 1
    /\ pc' = [pc EXCEPT !.fetchTargetTimes = "select"]
    /\ UNCHANGED <<isAdmin, aircraft, pilots, targetTimes, isAircraftPilotLoading,
                   aircraftPilotError, toast, failed, lateSetterCalls, atStart>>
    /\ AnalyticsFrame

\* One call of fetchTargetTimes from its query's { data, error } (or its rejection) to
\* its end.
FetchTargetTimesResult(res) ==
    LET bad == res.thrown \/ res.error
        stored == ~bad /\ res.present
    IN
    /\ view = Analytics
    /\ pc.fetchTargetTimes = "select"
    /\ selects > 0
    /\ selects' = selects - 1
    /\ targetTimes' = IF stored
                      THEN Set(targetTimes, [i \in 1..Len(res.data) |-> formatTarget(res.data[i])])
                      ELSE targetTimes
    /\ hasError' = IF bad THEN Set(hasError, TRUE) ELSE hasError
    /\ errorMessage' = IF bad
                       THEN Set(errorMessage, "Failed to load target times from the server")
                       ELSE errorMessage
    /\ toast' = IF bad THEN "Failed to load target times."
                ELSE IF stored THEN "Target times have been updated successfully"
                ELSE toast
    /\ failed' = IF bad THEN failed \cup {"route_target_times"} ELSE failed
    /\ isLoading' = Set(isLoading, FALSE)
    /\ lateSetterCalls' =
           Late((IF bad THEN {"setHasError", "setErrorMessage"}
                 ELSE IF stored THEN {"setTargetTimes"} ELSE {}) \cup {"setIsLoading"})
    /\ pc' = [pc EXCEPT !.fetchTargetTimes = IF selects = 1 THEN "done" ELSE "select"]
    /\ UNCHANGED <<isAdmin, aircraft, pilots, isAircraftPilotLoading, aircraftPilotError,
                   requests, atStart>>
    /\ AnalyticsFrame

\* useEffect on the targets prop: the parent hands over another list.
TargetsEffect(propTargets) ==
    /\ view = Analytics /\ mounted
    /\ pc.checkAdmin # "idle"
    /\ targetTimes' = propTargets
    /\ UNCHANGED <<isAdmin, pc, aircraft, pilots, isLoading, hasError, errorMessage,
                   isAircraftPilotLoading, aircraftPilotError, toast, requests, failed,
                   lateSetterCalls, atStart, selects>>
    /\ AnalyticsFrame

\* handleUpdateTargetTimes: a child hands over a new list through its setTargetTimes
\* prop, the target management (rendered for an administrator) or the table (rendered
\* for everyone unless isLoading or isAircraftPilotLoading).
HandleUpdateTargetTimes(newTargetTimes) ==
    /\ view = Analytics /\ mounted
    /\ isAdmin \/ (~isLoading /\ ~isAircraftPilotLoading)
    /\ targetTimes' = newTargetTimes
    /\ UNCHANGED <<isAdmin, pc, aircraft, pilots, isLoading, hasError, errorMessage,
                   isAircraftPilotLoading, aircraftPilotError, toast, requests, failed,
                   lateSetterCalls, atStart, selects>>
    /\ AnalyticsFrame

\* ------------------------------------------------------------------ FlightForm

Form == "FlightForm"

\* The path of the form for a new flight; any other form path names an existing flight.
NewFlightPath == "/flights/new"

FormPaths == {NewFlightPath, "/flights/1"}

\* What getFlightById answers with: flight 1 as the backend has it, or flight 1 logged
\* with its hobbs time and without tach readings.
FlightsById ==
    {<<toFlight(r)>> : r \in {row \in FlightRows : row.id = 1}}
        \cup {<<[toFlight(FlightRow(1, PayloadA)) EXCEPT
                    !.tachStart = Absent, !.tachEnd = Absent, !.hobbsTime = Num(15)]>>}

\* utils/numberUtils is not part of the sources at hand: ensureNumber is taken to return
\* a number as it is.  The tach fields are registered with valueAsNumber and hold
\* numbers here (an emptied field, NaN, is left out).
ensureNumber(value) == value

\* The body of the hobbsTime effect of the form: hobbsTime is set to 1.2 times the
\* tach difference, or to 0 for a negative difference.  The tach differences that occur
\* are 0, 2.0, 8.0 and 16.0 hours, whose products with 1.2 are exact in floating point.
hobbsTimeEffect(values) ==
    LET start == ensureNumber(values.tachStart)
        end == ensureNumber(values.tachEnd)
        tachDiff == IF end - start > 0 THEN end - start ELSE 0
    IN  [values EXCEPT !.hobbsTime = (tachDiff * 12) \div 10]

\* What no step of the form changes.
FormBase ==
    /\ UNCHANGED <<view, mounted, isAdmin, flights, flightsRendered, aircraft, isLoading,
                   arrived, atStart, trace>>
    /\ UNCHANGED <<listOnly, analyticsOnly, resolverOnly>>

\* What a step of the form other than fetchFlight leaves alone.
FormFrame ==
    /\ UNCHANGED <<existingFlight, loadingFlight, formValues, effectDeps>>
    /\ FormBase

\* The hobbsTime effect, dependencies [tachStart, tachEnd, setValue]: it runs after the
\* first render, and after a render in which a watched tach field differs from its value
\* at the run before.
HobbsTimeEffect ==
    /\ view = Form /\ mounted
    /\ effectDeps # <<formValues.tachStart, formValues.tachEnd>>
    /\ formValues' = hobbsTimeEffect(formValues)
    /\ effectDeps' = <<formValues.tachStart, formValues.tachEnd>>
    /\ UNCHANGED <<pilots, aircraftList, loadingAircraft, loadingPilots, pilotsError,
                   isSubmitting, existingFlight, loadingFlight, location, toast, requests,
                   failed, lateSetterCalls, pc>>
    /\ FormBase

\* A tach field of the rendered form is edited (the form is rendered unless the
\* aircraft and, for an existing flight, the flight are both still loading).  The change
\* is rendered within the event, and the effect, a watched field having changed, runs
\* after that render.
SetTach(field, value) ==
    /\ view = Form /\ mounted
    /\ location \in FormPaths
    /\ pc.fetchPilots # "idle" /\ pc.fetchAircraft # "idle"
    /\ location = NewFlightPath \/ pc.fetchFlight # "idle"
    /\ ~(loadingAircraft /\ location # NewFlightPath /\ loadingFlight)
    /\ formValues[field] # value
    /\ formValues' = hobbsTimeEffect([formValues EXCEPT ![field] = value])
    /\ effectDeps' = <<formValues'.tachStart, formValues'.tachEnd>>
    /\ UNCHANGED <<pilots, aircraftList, loadingAircraft, loadingPilots, pilotsError,
                   isSubmitting, existingFlight, loadingFlight, location, toast, requests,
                   failed, lateSetterCalls, pc>>
    /\ FormBase

\* The "Back to Flights" button above the form and the Cancel button of the rendered
\* form: navigate('/flights').
BackToFlights ==
    /\ view = Form /\ mounted
    /\ Navigate("/flights")

\* The fetchPilots effect up to its await.
FetchPilots ==
    /\ view = Form /\ mounted
    /\ pc.fetchPilots = "idle"
    /\ loadingPilots' = TRUE
    /\ pilotsError' = NULL
    /\ requests' = requests \cup {"getAllPilots"}
    /\ pc' = [pc EXCEPT !.fetchPilots = "getAllPilots"]
    /\ UNCHANGED <<pilots, aircraftList, loadingAircraft, isSubmitting, location, toast, failed,
                   lateSetterCalls>>
    /\ FormFrame

\* fetchPilots from the result of getAllPilots to its end.
FetchPilotsResult(res) ==
    LET stored == hasData(res) IN
    /\ view = Form
    /\ pc.fetchPilots = "getAllPilots"
    /\ pilots' = IF stored THEN Set(pilots, res.data) ELSE pilots
    /\ pilotsError' = IF stored THEN pilotsError
                      ELSE Set(pilotsError, IF res.thrown THEN "Unknown error fetching pilots"
                                            ELSE IF res.error THEN "error.toString()"
                                            ELSE "Failed to load pilots")
    /\ toast' = IF stored THEN toast
                ELSE IF res.thrown THEN "Failed to load pilots list."
                ELSE "Error fetching pilots"
    /\ failed' = IF Failure(res) THEN failed \cup {"getAllPilots"} ELSE failed
    /\ loadingPilots' = Set(loadingPilots, FALSE)
    /\ lateSetterCalls' = Late((IF stored THEN {"setPilots"} ELSE {"setPilotsError"})
                               \cup {"setLoadingPilots"})
    /\ pc' = [pc EXCEPT !.fetchPilots = "done"]
    /\ UNCHANGED <<aircraftList, loadingAircraft, isSubmitting, location, requests>>
    /\ FormFrame

\* The fetchAircraft effect up to its await.
FetchAircraft ==
    /\ view = Form /\ mounted
    /\ pc.fetchAircraft = "idle"
    /\ loadingAircraft' = TRUE
    /\ requests' = requests \cup {"getAllAircraft"}
    /\ pc' = [pc EXCEPT !.fetchAircraft = "getAllAircraft"]
    /\ UNCHANGED <<pilots, aircraftList, loadingPilots, pilotsError, isSubmitting, location,
                   toast, failed, lateSetterCalls>>
    /\ FormFrame

\* fetchAircraft from the result of getAllAircraft to its end.
FetchAircraftResult(res) ==
    LET stored == hasData(res) IN
    /\ view = Form
    /\ pc.fetchAircraft = "getAllAircraft"
    /\ aircraftList' = IF stored THEN Set(aircraftList, res.data) ELSE aircraftList
    /\ toast' = IF stored THEN toast
                ELSE IF res.thrown THEN "Failed to load aircraft list."
                ELSE "Error fetching aircraft"
    /\ failed' = IF Failure(res) THEN failed \cup {"getAllAircraft"} ELSE failed
    /\ loadingAircraft' = Set(loadingAircraft, FALSE)
    /\ lateSetterCalls' = Late((IF stored THEN {"setAircraftList"} ELSE {})
                               \cup {"setLoadingAircraft"})
    /\ pc' = [pc EXCEPT !.fetchAircraft = "done"]
    /\ UNCHANGED <<pilots, loadingPilots, pilotsError, isSubmitting, location, requests>>
    /\ FormFrame


\* The fetchFlight effect up to its await: it does nothing for a new flight.
FetchFlight ==
    /\ view = Form /\ mounted
    /\ pc.fetchFlight = "idle"
    /\ location \in FormPaths \ {NewFlightPath}
    /\ loadingFlight' = TRUE
    /\ requests' = requests \cup {"getFlightById"}
    /\ pc' = [pc EXCEPT !.fetchFlight = "getFlightById"]
    /\ UNCHANGED <<pilots, aircraftList, loadingAircraft, loadingPilots, pilotsError,
                   isSubmitting, existingFlight, location, toast, failed, lateSetterCalls,
                   formValues, effectDeps>>
    /\ FormBase

\* fetchFlight from the result of getFlightById to its end: the flight is kept and the
\* fields of the form are reset to it (a field || 0; the form's values are not React
\* state and are reset whether or not the form is mounted), or the failure is notified
\* and the router is sent to the list.  The hobbsTime effect comes after the render that
\* follows.
FetchFlightResult(res) ==
    LET stored == ~res.thrown /\ res.success /\ res.present IN
    /\ view = Form
    /\ pc.fetchFlight = "getFlightById"
    /\ existingFlight' = IF stored THEN Set(existingFlight, res.data[1]) ELSE existingFlight
    /\ formValues' =
           LET or0(x) == IF x.t = "number" THEN x.v ELSE 0    \* x || 0, x a number or absent
           IN  IF stored
               THEN [tachStart |-> or0(res.data[1].tachStart),
                     tachEnd |-> or0(res.data[1].tachEnd),
                     hobbsTime |-> or0(res.data[1].hobbsTime)]
               ELSE formValues
    /\ toast' = IF stored THEN toast
                ELSE IF res.error /\ ~res.thrown THEN "error.message"
                ELSE "Failed to load flight data."
    /\ location' = IF stored THEN location ELSE "/flights"
    /\ failed' = IF Failure(res) THEN failed \cup {"getFlightById"} ELSE failed
    /\ loadingFlight' = Set(loadingFlight, FALSE)
    /\ lateSetterCalls' = Late((IF stored THEN {"setExistingFlight"} ELSE {})
                               \cup {"setLoadingFlight"})
    /\ pc' = [pc EXCEPT !.fetchFlight = "done"]
    /\ UNCHANGED <<pilots, aircraftList, loadingAircraft, loadingPilots, pilotsError,
                   isSubmitting, requests, effectDeps>>
    /\ FormBase

\* onSubmit up to its await (the effects of the first render have run; the form is
\* rendered unless both loadingAircraft and, for an existing flight, loadingFlight; the
\* submit button is disabled while isSubmitting): createFlight when the id of the path
\* is 'new', updateFlight otherwise.
OnSubmit ==
    /\ view = Form /\ mounted
    /\ location \in FormPaths
    /\ pc.fetchPilots # "idle" /\ pc.fetchAircraft # "idle"
    /\ location = NewFlightPath \/ pc.fetchFlight # "idle"
    /\ ~(loadingAircraft /\ location # NewFlightPath /\ loadingFlight)
    /\ ~isSubmitting
    /\ isSubmitting' = TRUE
    /\ requests' = requests \cup {IF location = NewFlightPath THEN "createFlight"
                                  ELSE "updateFlight"}
    /\ pc' = [pc EXCEPT !.onSubmit = IF location = NewFlightPath THEN "createFlight"
                                     ELSE "updateFlight"]
    /\ UNCHANGED <<pilots, aircraftList, loadingAircraft, loadingPilots, pilotsError, location,
                   toast, failed, lateSetterCalls>>
    /\ FormFrame

\* onSubmit from the result of the mutation to its end, were the router sent to the list
\* in every outcome.
OnSubmitResultNavigates(res) ==
    LET success == succeeded(res)
        created == pc.onSubmit = "createFlight"
    IN
    /\ view = Form
    /\ pc.onSubmit \in {"createFlight", "updateFlight"}
    /\ toast' = IF success
                THEN (IF created THEN "Flight created successfully."
                      ELSE "Flight updated successfully.")
                ELSE IF res.thrown THEN "Failed to submit flight data."
                ELSE IF res.error THEN "error.message"
                ELSE IF created THEN "Failed to create flight."
                ELSE "Failed to update flight."
    /\ location' = "/flights"
    /\ failed' = IF success THEN failed ELSE failed \cup {pc.onSubmit}
    /\ isSubmitting' = Set(isSubmitting, FALSE)
    /\ lateSetterCalls' = Late({"setIsSubmitting"})
    /\ pc' = [pc EXCEPT !.onSubmit = "done"]
    /\ UNCHANGED <<pilots, aircraftList, loadingAircraft, loadingPilots, pilotsError, requests>>
    /\ FormFrame

\* onSubmit from the result of the mutation to its end.
OnSubmitResult(res) ==
    LET success == succeeded(res)
        created == pc.onSubmit = "createFlight"
    IN
    /\ view = Form
    /\ pc.onSubmit \in {"createFlight", "updateFlight"}
    /\ toast' = IF success
                THEN (IF created THEN "Flight created successfully."
                      ELSE "Flight updated successfully.")
                ELSE IF res.thrown THEN "Failed to submit flight data."
                ELSE IF res.error THEN "error.message"
                ELSE IF created THEN "Failed to create flight."
                ELSE "Failed to update flight."
    /\ location' = IF success THEN "/flights" ELSE location
    /\ failed' = IF success THEN failed ELSE failed \cup {pc.onSubmit}
    /\ isSubmitting' = Set(isSubmitting, FALSE)
    /\ lateSetterCalls' = Late({"setIsSubmitting"})
    /\ pc' = [pc EXCEPT !.onSubmit = "done"]
    /\ UNCHANGED <<pilots, aircraftList, loadingAircraft, loadingPilots, pilotsError, requests>>
    /\ FormFrame

\* ------------------------------------------------------------------ SafetyList

\* The report the backend holds: of category 'Hazard' and status 'open', without
\* description and reporter name.
Report1 ==
    [id |-> 1, description |-> NULL, category |-> "Hazard", reporterName |-> NULL,
     status |-> "open"]

\* The lists getAllSafetyReports answers with.
ReportLists == {<< >>, <<Report1>>}

\* What is typed into the search box.
SearchTerms == {"", "Haz", "zzz"}

\* String.prototype.toLowerCase, on the strings at hand.
toLowerCase(text) ==
    CASE text = "Hazard" -> "hazard" [] text = "Haz" -> "haz" [] OTHER -> text

\* field?.toLowerCase().includes(term): undefined for a field the report lacks, and on
\* the lower-case strings at hand.
includes(text, term) ==
    /\ text # NULL
    /\ \/ term = ""
       \/ text = term
       \/ text = "hazard" /\ term = "haz"

\* filteredReports: the reports of which a field contains the search term.
filteredReports ==
    SelectSeq(reports, LAMBDA report :
        \/ includes(toLowerCase(report.description), toLowerCase(searchTerm))
        \/ includes(toLowerCase(report.category), toLowerCase(searchTerm))
        \/ includes(toLowerCase(report.reporterName), toLowerCase(searchTerm))
        \/ includes(toLowerCase(report.status), toLowerCase(searchTerm)))

\* The fetchReports effect up to its await.
FetchReports ==
    /\ view = "SafetyList" /\ mounted
    /\ pc.fetchReports = "idle"
    /\ loading' = TRUE
    /\ error' = NULL
    /\ requests' = requests \cup {"getAllSafetyReports"}
    /\ pc' = [pc EXCEPT !.fetchReports = "getAllSafetyReports"]
    /\ UNCHANGED <<view, mounted, isAdmin, flights, flightsRendered, aircraft, pilots,
                   isLoading, location, toast, failed, lateSetterCalls, arrived, atStart,
                   trace, reports, searchTerm, deleteDialogOpen, flightToDelete,
                   deleteLoading, closure>>
    /\ UNCHANGED <<analyticsOnly, formOnly, arg, out, selectedMonth, selectedYear,
                   selectedAircraft, selectedPilot, sortField, sortDirection, now, timeZone,
                   monthlyData>>

\* fetchReports from the result of getAllSafetyReports to its end: the reports are
\* stored, or the error is, and the timer that ends loading is started.
FetchReportsResult(res) ==
    LET stored == hasData(res) IN
    /\ view = "SafetyList"
    /\ pc.fetchReports = "getAllSafetyReports"
    /\ reports' = IF stored THEN Set(reports, res.data) ELSE reports
    /\ error' = IF res.thrown THEN Set(error, "Failed to load report data.")
                ELSE IF ~stored /\ res.error THEN Set(error, "error")
                ELSE error
    /\ toast' = IF res.thrown THEN "Failed to load safety reports"
                ELSE IF ~stored /\ res.error THEN "Error loading reports"
                ELSE toast
    /\ failed' = IF errorReported(res) THEN failed \cup {"getAllSafetyReports"} ELSE failed
    /\ lateSetterCalls' = Late(IF stored THEN {"setReports"}
                               ELSE IF res.thrown \/ res.error THEN {"setError"}
                               ELSE {})
    /\ pc' = [pc EXCEPT !.fetchReports = "setTimeout"]
    /\ UNCHANGED <<view, mounted, isAdmin, flights, flightsRendered, aircraft, pilots,
                   isLoading, location, requests, arrived, atStart, trace, loading,
                   searchTerm, deleteDialogOpen, flightToDelete, deleteLoading, closure>>
    /\ UNCHANGED <<analyticsOnly, formOnly, arg, out, selectedMonth, selectedYear,
                   selectedAircraft, selectedPilot, sortField, sortDirection, now, timeZone,
                   monthlyData>>

\* The timer of fetchReports fires, 300 ms after the fetch ended: setLoading(false).
FetchReportsTimeout ==
    /\ view = "SafetyList"
    /\ pc.fetchReports = "setTimeout"
    /\ loading' = Set(loading, FALSE)
    /\ lateSetterCalls' = Late({"setLoading"})
    /\ pc' = [pc EXCEPT !.fetchReports = "done"]
    /\ UNCHANGED <<view, mounted, isAdmin, flights, flightsRendered, aircraft, pilots,
                   isLoading, location, toast, requests, failed, arrived, atStart, trace,
                   reports, searchTerm, error, deleteDialogOpen, flightToDelete,
                   deleteLoading, closure>>
    /\ UNCHANGED <<analyticsOnly, formOnly, arg, out, selectedMonth, selectedYear,
                   selectedAircraft, selectedPilot, sortField, sortDirection, now, timeZone,
                   monthlyData>>

\* The search box, rendered in the error view and in the normal view:
\* onChange={(e) => setSearchTerm(e.target.value)}.
SetSearchTerm(value) ==
    /\ view = "SafetyList" /\ mounted
    /\ searchTerm # value
    /\ searchTerm' = value
    /\ UNCHANGED <<view, mounted, isAdmin, pc, flights, flightsRendered, aircraft, pilots,
                   isLoading, location, toast, requests, failed, lateSetterCalls, arrived,
                   atStart, trace, reports>>
    /\ UNCHANGED <<listOnly, analyticsOnly, formOnly, arg, out, selectedMonth, selectedYear,
                   selectedAircraft, selectedPilot, sortField, sortDirection, now, timeZone,
                   monthlyData>>

\* handleAddNew: the New Report button, of the error view and of the normal view.
HandleAddNew ==
    /\ view = "SafetyList" /\ mounted
    /\ Navigate("/safety/new")

\* handleAdminReview: the Admin Review button, rendered in the error view, and in the
\* normal view for an administrator.
HandleAdminReview ==
    /\ view = "SafetyList" /\ mounted
    /\ (error # NULL /\ ~loading) \/ isAdmin
    /\ Navigate("/admin/safety")

\* handleViewReport: the View button of a row of the table, which the normal view
\* renders once loading is false (a skeleton before), with a row for every one of the
\* filteredReports and the button for an administrator.
HandleViewReport(reportId) ==
    /\ view = "SafetyList" /\ mounted
    /\ ~loading /\ error = NULL /\ isAdmin
    /\ SomeId(filteredReports, reportId)
    /\ Navigate("/safety/" \o ToString(reportId))

\* ------------------------------------------------------------------ admin controls

\* The admin controls the mounted view renders in its current state: the edit and
\* delete buttons of the rows of the flight list (no row is rendered while loading, in
\* the error view or for an empty list), the TargetManagement component of the route
\* analytics, and the Admin Review button and the View buttons of the rows of the safety
\* list, which has an error view (error && !loading) and a normal view, whose table
\* (the rows of filteredReports) is rendered once loading is false.
adminControls ==
    IF ~mounted THEN {}
    ELSE IF view = List
    THEN (IF ~loading /\ error = NULL /\ flights # << >> /\ isAdmin
          THEN {"Edit", "Delete"} ELSE {})
    ELSE IF view = Analytics
    THEN (IF isAdmin THEN {"TargetManagement"} ELSE {})
    ELSE IF view = "SafetyList"
    THEN (IF error # NULL /\ ~loading THEN {"Admin Review"}
          ELSE IF isAdmin
          THEN {"Admin Review"}
                   \cup (IF ~loading /\ filteredReports # << >> THEN {"View"} ELSE {})
          ELSE {})
    ELSE {}

\* ------------------------------------------------------------------ duration resolver

\* parseFloat(x as any) || 0
parseFloatOr0(x) == IF x.t \in {"number", "string"} THEN x.v ELSE 0

\* typeof x === 'number' ? x : 0
numberOr0(x) == IF x.t = "number" THEN x.v ELSE 0

\* FlightSummaryOverview, aircraftStats: the hours one flight adds to totalHours.
aircraftStatsHours(flight) ==
    LET hobbsTime == parseFloatOr0(flight.hobbsTime)
        tachStart == parseFloatOr0(flight.tachStart)
        tachEnd   == parseFloatOr0(flight.tachEnd)
        tachDiff  == IF tachEnd > tachStart THEN tachEnd - tachStart ELSE 0
    IN  IF hobbsTime # 0 THEN hobbsTime ELSE tachDiff

\* A resolver that prefers the tach difference and falls back to hobbsTime.
tachFirstHours(flight) ==
    LET hobbsTime == parseFloatOr0(flight.hobbsTime)
        tachStart == parseFloatOr0(flight.tachStart)
        tachEnd   == parseFloatOr0(flight.tachEnd)
        tachDiff  == IF tachEnd > tachStart THEN tachEnd - tachStart ELSE 0
    IN  IF tachDiff # 0 THEN tachDiff ELSE hobbsTime

\* FlightSummaryOverview, pilotStats: hours of one flight.
pilotStatsHours(flight) ==
    LET hobbsTime == parseFloatOr0(flight.hobbsTime)
        tachStart == parseFloatOr0(flight.tachStart)
        tachEnd   == parseFloatOr0(flight.tachEnd)
        tachDiff  == IF tachEnd > tachStart THEN tachEnd - tachStart ELSE 0
    IN  IF hobbsTime # 0 THEN hobbsTime ELSE tachDiff

\* FlightSummaryOverview, routeStats: hours of one flight.
routeStatsHours(flight) ==
    LET hobbsTime == parseFloatOr0(flight.hobbsTime)
        tachStart == parseFloatOr0(flight.tachStart)
        tachEnd   == parseFloatOr0(flight.tachEnd)
        tachDiff  == IF tachEnd > tachStart THEN tachEnd - tachStart ELSE 0
    IN  IF hobbsTime # 0 THEN hobbsTime ELSE tachDiff

\* FlightSummaryOverview, the Total Hours card: what one flight adds to the sum.
totalHoursCard(flight) ==
    LET hobbsTime == parseFloatOr0(flight.hobbsTime)
        tachStart == parseFloatOr0(flight.tachStart)
        tachEnd   == parseFloatOr0(flight.tachEnd)
        tachDiff  == IF tachEnd > tachStart THEN tachEnd - tachStart ELSE 0
    IN  IF hobbsTime # 0 THEN hobbsTime ELSE tachDiff

\* FuelAnalysisContent, fuelAnalysisByAircraft: hoursFlown of one flight.
hoursFlown(flight) ==
    LET hobbsTime == numberOr0(flight.hobbsTime)
        tachStart == numberOr0(flight.tachStart)
        tachEnd   == numberOr0(flight.tachEnd)
    IN  IF hobbsTime # 0 THEN hobbsTime ELSE tachEnd - tachStart

\* FuelAnalysisContent, overallStats: what one flight adds to totalHours.
overallStatsHours(flight) ==
    LET hobbsTime == numberOr0(flight.hobbsTime)
        tachStart == numberOr0(flight.tachStart)
        tachEnd   == numberOr0(flight.tachEnd)
    IN  IF hobbsTime # 0 THEN hobbsTime ELSE tachEnd - tachStart

\* The values of hobbsTime and of the tach readings the resolver is tried on.
HobbsValues == {Absent, Undefined, Text, Num(0), Str(0), Num(24), Str(15)}

TachValues == {Absent, Undefined, Num(0), Num(100), Num(120), Str(100), Str(125)}

ResolverFlights ==
    {[toFlight(FlightRow(1, PayloadA)) EXCEPT !.hobbsTime = h, !.tachStart = s, !.tachEnd = e] :
        h \in HobbsValues, s \in TachValues, e \in TachValues}

\* The resolver of one place is applied to the flight.
Resolved(place, hours) ==
    /\ view = "resolver"
    /\ out.place = "none"
    /\ out' = [place |-> place, hours |-> hours, t |-> "number"]
    /\ UNCHANGED <<view, mounted, isAdmin, pc, flights, flightsRendered, aircraft, pilots,
                   isLoading, location, toast, requests, failed, lateSetterCalls, arrived,
                   atStart, trace, arg, selectedMonth, selectedYear, selectedAircraft,
                   selectedPilot, sortField, sortDirection>>
    /\ UNCHANGED <<listOnly, analyticsOnly, formOnly, now, timeZone, monthlyData, reports,
                   searchTerm>>

ResolveAircraftStats == Resolved("aircraftStats", aircraftStatsHours(arg))

ResolvePilotStats == Resolved("pilotStats", pilotStatsHours(arg))

ResolveRouteStats == Resolved("routeStats", routeStatsHours(arg))

ResolveTotalHoursCard == Resolved("totalHoursCard", totalHoursCard(arg))

ResolveHoursFlown == Resolved("fuelAnalysisByAircraft", hoursFlown(arg))

ResolveOverallStats == Resolved("overallStats", overallStatsHours(arg))

\* RouteAnalyticsContent, chartData: what one flight adds to totalTime, sum + f.hobbsTime
\* with sum a number.  A number is added, null adds nothing, undefined turns the sum
\* into NaN, and a string turns the sum into a string (the sum's digits followed by the
\* string): t is the JavaScript type of the result (NaN apart) and v the hours the
\* flight stands for in it.
totalTime(flight) ==
    IF flight.hobbsTime.t = "number" THEN [t |-> "number", v |-> flight.hobbsTime.v]
    ELSE IF flight.hobbsTime.t = "absent" THEN [t |-> "number", v |-> 0]
    ELSE IF flight.hobbsTime.t = "undefined" THEN [t |-> "NaN", v |-> 0]
    ELSE [t |-> "string", v |-> flight.hobbsTime.v]

ResolveChartData ==
    /\ view = "resolver"
    /\ out.place = "none"
    /\ out' = [place |-> "chartData", hours |-> totalTime(arg).v, t |-> totalTime(arg).t]
    /\ UNCHANGED <<view, mounted, isAdmin, pc, flights, flightsRendered, aircraft, pilots,
                   isLoading, location, toast, requests, failed, lateSetterCalls, arrived,
                   atStart, trace, arg, selectedMonth, selectedYear, selectedAircraft,
                   selectedPilot, sortField, sortDirection>>
    /\ UNCHANGED <<listOnly, analyticsOnly, formOnly, now, timeZone, monthlyData, reports,
                   searchTerm>>

\* ------------------------------------------------------------------ statistics

\* The flight collections the statistics are computed from (at most MaxFlightId + 1
\* flights, identified by their position).  Hours, tach readings and fuel are numbers
\* or null and multiples of half an hour, which binary floating point holds exactly:
\* sums, quotients and the ties of toFixed are then the exact ones.
StatFlightLists ==
    LET a == [toFlight(FlightRow(1, PayloadA)) EXCEPT
                 !.hobbsTime = Num(20), !.route = "ABC", !.date = Date(2025, 3, 14)]
        b == [a EXCEPT !.pilotId = "p2", !.pilotName = "Bob", !.route = "XYZ",
                 !.hobbsTime = Num(30), !.tachStart = Num(120), !.tachEnd = Num(150),
                 !.passengerCount = Num(3), !.category = "91", !.fuelAdded = Num(30),
                 !.date = Date(2025, 4, 2)]
        c == [a EXCEPT !.aircraftId = "Y", !.hobbsTime = Absent,
                 !.passengerCount = Num(1), !.fuelAdded = Num(20),
                 !.date = Date(2024, 12, 30)]
        d == [a EXCEPT !.aircraftId = NULL, !.pilotId = NULL, !.pilotName = NULL,
                 !.route = NULL, !.hobbsTime = Num(15), !.tachStart = Num(120),
                 !.tachEnd = Num(100), !.passengerCount = Num(2), !.fuelAdded = Num(10),
                 !.date = Date(2025, 3, 20)]
        lists == UNION {[1..n -> {a, b, c, d}] : n \in 0..(MaxFlightId + 1)}
    IN  {[i \in DOMAIN l |-> [l[i] EXCEPT !.id = i]] : l \in lists}

\* A firstAppearance that lists a key at each of its appearances.
everyAppearance(keys) == keys

\* Object.entries of an accumulator object whose keys were added in the order keys:
\* every key once, in the order of its first appearance.
firstAppearance(keys) ==
    LET first(i) == \A j \in 1..(i - 1) : keys[j] # keys[i]
        places == SelectSeq([i \in 1..Len(keys) |-> i], first)
    IN  [n \in 1..Len(places) |-> keys[places[n]]]

\* Array.prototype.sort (a stable sort); cmp[j, i] is what the comparator returns for
\* the rows at j and i.  A row comes after the rows that compare before it and after
\* the earlier rows that compare equal to it.
sort(rows, cmp) ==
    LET before(i) == {j \in DOMAIN rows : cmp[j, i] < 0 \/ (cmp[j, i] = 0 /\ j < i)}
    IN  [k \in DOMAIN rows |->
            rows[CHOOSE i \in DOMAIN rows : Cardinality(before(i)) = k - 1]]

\* values.reduce((sum, v) => sum + v, 0), and the running totals kept with +=.
RECURSIVE Sum(_)
Sum(values) == IF values = << >> THEN 0 ELSE Head(values) + Sum(Tail(values))

\* parseFloat((n / d).toFixed(k)) counted in units of 10^-k, for n / d not negative: the
\* nearest unit, a tie going upward (n and d are scaled by the caller).
toFixed(n, d) == (2 * n + d) \div (2 * d)

\* FlightSummaryOverview, flightsByAircraft: the flights of each aircraft, without the
\* flights that have no aircraftId.
flightsByAircraft(filteredFlights) ==
    LET kept == SelectSeq(filteredFlights, LAMBDA flight : ~Falsy(flight.aircraftId))
        ids == firstAppearance([i \in 1..Len(kept) |-> kept[i].aircraftId])
    IN  [n \in 1..Len(ids) |->
            [aircraftId |-> ids[n],
             aircraftFlights |-> SelectSeq(kept, LAMBDA flight : flight.aircraftId = ids[n])]]

\* FlightSummaryOverview, aircraftStats (not sorted).
aircraftStats(filteredFlights, aircraftState) ==
    LET byAircraft == flightsByAircraft(filteredFlights)
        tachDiff(flight) ==
            LET tachStart == parseFloatOr0(flight.tachStart)
                tachEnd   == parseFloatOr0(flight.tachEnd)
            IN  IF tachEnd > tachStart THEN tachEnd - tachStart ELSE 0
        stats(aircraftId, aircraftFlights) ==
            LET found == SelectSeq(aircraftState, LAMBDA a : a.id = aircraftId)
                totalHours == Sum([i \in DOMAIN aircraftFlights |->
                                      aircraftStatsHours(aircraftFlights[i])])
                totalTach == Sum([i \in DOMAIN aircraftFlights |->
                                     tachDiff(aircraftFlights[i])])
                flightCount == Len(aircraftFlights)
            IN  [id |-> aircraftId,
                 tailNumber |-> IF found = << >> \/ Falsy(found[1].tailNumber)
                                THEN "Unknown" ELSE found[1].tailNumber,
                 make |-> IF found = << >> \/ Falsy(found[1].make)
                          THEN "Unknown" ELSE found[1].make,
                 model |-> IF found = << >> \/ Falsy(found[1].model)
                           THEN "Unknown" ELSE found[1].model,
                 flightCount |-> flightCount,
                 totalHours |-> totalHours,
                 totalTach |-> totalTach,
                 averageFlightTime |-> IF flightCount > 0
                                       THEN toFixed(totalHours, flightCount) ELSE 0,
                 averageTachTime |-> IF flightCount > 0
                                     THEN toFixed(totalTach, flightCount) ELSE 0]
    IN  [n \in DOMAIN byAircraft |->
            stats(byAircraft[n].aircraftId, byAircraft[n].aircraftFlights)]

\* FlightSummaryOverview, pilotStats: by pilotName || 'Unknown', most flights first.
pilotStats(filteredFlights) ==
    LET pilot(flight) == IF Falsy(flight.pilotName) THEN "Unknown" ELSE flight.pilotName
        names == firstAppearance([i \in DOMAIN filteredFlights |-> pilot(filteredFlights[i])])
        stats(name) ==
            LET own == SelectSeq(filteredFlights, LAMBDA flight : pilot(flight) = name)
                count == Len(own)
                hours == Sum([i \in DOMAIN own |-> pilotStatsHours(own[i])])
            IN  [name |-> name, flights |-> count, hours |-> hours,
                 averageTime |-> IF count > 0 THEN toFixed(hours, count) ELSE 0]
        rows == [n \in DOMAIN names |-> stats(names[n])]
    IN  sort(rows, [x \in DOMAIN rows, y \in DOMAIN rows |-> rows[y].flights - rows[x].flights])

\* A routeStats whose byRoute outlives one computation: a second computation over the
\* same flights adds to the counts and hours the first one left.
routeStatsCarriedOver(filteredFlights) ==
    LET route(flight) == IF Falsy(flight.route) THEN "Local" ELSE flight.route
        names == firstAppearance([i \in DOMAIN filteredFlights |-> route(filteredFlights[i])])
        stats(name) ==
            LET own == SelectSeq(filteredFlights, LAMBDA flight : route(flight) = name)
                count == 2 * Len(own)
                hours == 2 * Sum([i \in DOMAIN own |-> routeStatsHours(own[i])])
            IN  [name |-> name, flights |-> count, hours |-> hours, tach |-> 0,
                 averageTime |-> IF count > 0 THEN toFixed(hours, count) ELSE 0,
                 averageTach |-> 0]
        rows == [n \in DOMAIN names |-> stats(names[n])]
    IN  sort(rows, [x \in DOMAIN rows, y \in DOMAIN rows |-> rows[y].flights - rows[x].flights])

\* FlightSummaryOverview, routeStats: by route || 'Local', most flights first.
routeStats(filteredFlights) ==
    LET route(flight) == IF Falsy(flight.route) THEN "Local" ELSE flight.route
        names == firstAppearance([i \in DOMAIN filteredFlights |-> route(filteredFlights[i])])
        tachDiff(flight) ==
            LET tachStart == parseFloatOr0(flight.tachStart)
                tachEnd   == parseFloatOr0(flight.tachEnd)
            IN  IF tachEnd > tachStart THEN tachEnd - tachStart ELSE 0
        stats(name) ==
            LET own == SelectSeq(filteredFlights, LAMBDA flight : route(flight) = name)
                count == Len(own)
                hours == Sum([i \in DOMAIN own |-> routeStatsHours(own[i])])
                tach == Sum([i \in DOMAIN own |-> tachDiff(own[i])])
            IN  [name |-> name, flights |-> count, hours |-> hours, tach |-> tach,
                 averageTime |-> IF count > 0 THEN toFixed(hours, count) ELSE 0,
                 averageTach |-> IF count > 0 THEN toFixed(tach, count) ELSE 0]
        rows == [n \in DOMAIN names |-> stats(names[n])]
    IN  sort(rows, [x \in DOMAIN rows, y \in DOMAIN rows |-> rows[y].flights - rows[x].flights])

\* PassengerSummaryContent, passengersByAircraft over the flights of category SF or 135:
\* by aircraftId (no flight is skipped), most passengers first.  The groups are the
\* properties of an object, so that the id of a row is the property name: the string
\* "null" for the flights without aircraftId.  Passengers are counted in units and their
\* average in tenths; passengerCount || 0 is taken for a count that is a number or null.
passengersByAircraft(storedFlights, aircraftState) ==
    LET relevantFlights == SelectSeq(storedFlights,
                                     LAMBDA flight : flight.category \in {"SF", "135"})
        key(flight) == IF flight.aircraftId = NULL THEN "null" ELSE flight.aircraftId
        ids == firstAppearance([i \in DOMAIN relevantFlights |-> key(relevantFlights[i])])
        stats(aircraftId) ==
            LET own == SelectSeq(relevantFlights, LAMBDA flight : key(flight) = aircraftId)
                found == SelectSeq(aircraftState, LAMBDA a : a.id = aircraftId)
                count == Sum([i \in DOMAIN own |-> numberOr0(own[i].passengerCount)])
            IN  [id |-> aircraftId,
                 name |-> IF found = << >> \/ Falsy(found[1].tailNumber)
                          THEN "Unknown" ELSE found[1].tailNumber,
                 makeModel |-> (IF found = << >> \/ Falsy(found[1].make)
                                THEN "Unknown" ELSE found[1].make)
                               \o " "
                               \o (IF found = << >> \/ Falsy(found[1].model)
                                   THEN "" ELSE found[1].model),
                 passengers |-> count,
                 flights |-> Len(own),
                 average |-> toFixed(10 * count, Len(own))]
        rows == [n \in DOMAIN ids |-> stats(ids[n])]
    IN  sort(rows, [x \in DOMAIN rows, y \in DOMAIN rows |-> rows[y].passengers - rows[x].passengers])

\* PassengerSummaryContent, passengersByRoute: by route || 'Local', most passengers first.
passengersByRoute(storedFlights) ==
    LET relevantFlights == SelectSeq(storedFlights,
                                     LAMBDA flight : flight.category \in {"SF", "135"})
        route(flight) == IF Falsy(flight.route) THEN "Local" ELSE flight.route
        names == firstAppearance([i \in DOMAIN relevantFlights |-> route(relevantFlights[i])])
        stats(name) ==
            LET own == SelectSeq(relevantFlights, LAMBDA flight : route(flight) = name)
                count == Sum([i \in DOMAIN own |-> numberOr0(own[i].passengerCount)])
            IN  [name |-> name, passengers |-> count, flights |-> Len(own),
                 average |-> toFixed(10 * count, Len(own))]
        rows == [n \in DOMAIN names |-> stats(names[n])]
    IN  sort(rows, [x \in DOMAIN rows, y \in DOMAIN rows |-> rows[y].passengers - rows[x].passengers])

\* FuelAnalysisContent, fuelAnalysisByAircraft: by aircraftId as it is (no flight is
\* skipped); the aircraft with hours and fuel, most hours first.  fuelPerHour is in
\* hundredths.
fuelAnalysisByAircraft(storedFlights, aircraftState) ==
    LET ids == firstAppearance([i \in DOMAIN storedFlights |-> storedFlights[i].aircraftId])
        stats(aircraftId) ==
            LET own == SelectSeq(storedFlights, LAMBDA flight : flight.aircraftId = aircraftId)
                found == SelectSeq(aircraftState, LAMBDA a : a.id = aircraftId)
                totalHours == Sum([i \in DOMAIN own |-> hoursFlown(own[i])])
                totalFuel == Sum([i \in DOMAIN own |-> numberOr0(own[i].fuelAdded)])
            IN  [aircraftId |-> aircraftId,
                 tailNumber |-> IF found = << >> \/ Falsy(found[1].tailNumber)
                                THEN "Unknown" ELSE found[1].tailNumber,
                 totalHours |-> totalHours,
                 totalFuel |-> totalFuel,
                 fuelPerHour |-> IF totalHours > 0
                                 THEN toFixed(100 * totalFuel, totalHours) ELSE 0]
        all == [n \in DOMAIN ids |-> stats(ids[n])]
        rows == SelectSeq(all, LAMBDA s : s.totalHours > 0 /\ s.totalFuel > 0)
    IN  sort(rows, [x \in DOMAIN rows, y \in DOMAIN rows |-> rows[y].totalHours - rows[x].totalHours])

\* ------------------------------------------------------------------ route analytics table

\* The targets the analytics is handed: of rows 1 to 3 of route_target_times, and one
\* of route XYZ for pilot p1; at most MaxTargetId of them, in any order.
ChartTargetLists ==
    LET forPilot == [formatTarget(TargetRow(1)) EXCEPT
                        !.id = 4, !.route = "XYZ", !.targetTime = 30, !.pilotId = "p1"]
    IN  SeqsNoRepeat({formatTarget(TargetRow(i)) : i \in 1..3} \cup {forPilot}, MaxTargetId)

\* parseInt of a filter selection; -1 stands for NaN, which no month and no year equals.
parseInt(s) ==
    CASE s = "3" -> 3 [] s = "4" -> 4 [] s = "12" -> 12
      [] s = "2024" -> 2024 [] s = "2025" -> 2025 [] OTHER -> -1

\* chartData, the predicate of targetTimes.find: whether target t applies to the route
\* under the filter selection.
targetMatches(t, route, month, year, aircraftSel, pilotSel) ==
    /\ t.route = route
    /\ (aircraftSel = "all-aircraft" \/ t.aircraftId = aircraftSel \/ Falsy(t.aircraftId))
    /\ (pilotSel = "all-pilots" \/ t.pilotId = pilotSel \/ Falsy(t.pilotId))
    /\ (month = "all-months" \/ t.month = parseInt(month) \/ t.month = NoPeriod)
    /\ (year = "all-years" \/ t.year = parseInt(year) \/ t.year = NoPeriod)

\* A lookup without the || null: a target time of 0 is handed on as the number 0.
zeroTargetTime(targets, route, month, year, aircraftSel, pilotSel) ==
    LET hits == SelectSeq(targets, LAMBDA t : targetMatches(t, route, month, year,
                                                            aircraftSel, pilotSel))
    IN  IF hits = << >> THEN Absent ELSE Num(<<hits[1].targetTime, 1>>)

\* A lookup that takes the last target that applies instead of the first.
lastTargetTime(targets, route, month, year, aircraftSel, pilotSel) ==
    LET hits == SelectSeq(targets, LAMBDA t : targetMatches(t, route, month, year,
                                                            aircraftSel, pilotSel))
    IN  IF hits = << >> \/ hits[Len(hits)].targetTime = 0 THEN Absent
        ELSE Num(<<hits[Len(hits)].targetTime, 1>>)

\* chartData, targetTime of a route: targetTimes.find(...)?.targetTime || null, the
\* target time of the first target that applies, null when there is none or it is 0.
\* A number of a chart row is a quotient n / d, written Num(<<n, d>>), so that no
\* precision is lost; null is Absent.
findTargetTime(targets, route, month, year, aircraftSel, pilotSel) ==
    LET hits == SelectSeq(targets, LAMBDA t : targetMatches(t, route, month, year,
                                                            aircraftSel, pilotSel))
    IN  IF hits = << >> \/ hits[1].targetTime = 0 THEN Absent
        ELSE Num(<<hits[1].targetTime, 1>>)

\* A variance whose percentDiff is the average as a percentage of the target.
percentOfTarget(totalTimeSum, flightCount, targetTime) ==
    IF targetTime.t = "absent"
    THEN [difference |-> Absent, percentDiff |-> Absent]
    ELSE LET target == targetTime.v[1] IN
         [difference |-> Num(<<totalTimeSum - target * flightCount, flightCount>>),
          percentDiff |-> Num(<<100 * totalTimeSum, target * flightCount>>)]

\* chartData, difference and percentDiff of a route whose flights last totalTimeSum:
\* averageTime - targetTime and (averageTime / targetTime - 1) * 100, null without target.
reconcile(totalTimeSum, flightCount, targetTime) ==
    IF targetTime.t = "absent"
    THEN [difference |-> Absent, percentDiff |-> Absent]
    ELSE LET target == targetTime.v[1] IN
         [difference |-> Num(<<totalTimeSum - target * flightCount, flightCount>>),
          percentDiff |-> Num(<<100 * (totalTimeSum - target * flightCount),
                                target * flightCount>>)]

\* A comparator that treats null as the smallest value: first when ascending, last
\* when descending.
nullIsSmallest(a, b, field, direction) ==
    LET aValue == a[field]
        bValue == b[field]
        subtract(x, y) == x.v[1] * y.v[2] - y.v[1] * x.v[2]
        rank(name) == CASE name = "ABC" -> 1 [] name = "Unknown" -> 2 [] OTHER -> 3
    IN  IF field = "route"
        THEN IF direction = "asc" THEN rank(aValue) - rank(bValue)
             ELSE rank(bValue) - rank(aValue)
        ELSE IF field = "flightCount"
        THEN IF direction = "asc" THEN aValue - bValue ELSE bValue - aValue
        ELSE IF aValue.t = "absent" /\ bValue.t = "absent" THEN 0
        ELSE IF aValue.t = "absent" THEN (IF direction = "asc" THEN -1 ELSE 1)
        ELSE IF bValue.t = "absent" THEN (IF direction = "asc" THEN 1 ELSE -1)
        ELSE IF direction = "asc" THEN subtract(aValue, bValue)
        ELSE subtract(bValue, aValue)

\* chartData, the comparator of routeStats.sort: negative when a goes first, positive
\* when b does.
compareRows(a, b, field, direction) ==
    LET aValue == a[field]
        bValue == b[field]
        \* the sign of x - y for two quotients (their denominators are positive)
        subtract(x, y) == x.v[1] * y.v[2] - y.v[1] * x.v[2]
        \* localeCompare of the route names at hand
        rank(name) == CASE name = "ABC" -> 1 [] name = "Unknown" -> 2 [] OTHER -> 3
    IN  IF field = "route"
        THEN IF direction = "asc" THEN rank(aValue) - rank(bValue)
             ELSE rank(bValue) - rank(aValue)
        ELSE IF field = "flightCount"
        THEN IF direction = "asc" THEN aValue - bValue ELSE bValue - aValue
        ELSE IF aValue.t = "absent" /\ bValue.t = "absent" THEN 0
        ELSE IF aValue.t = "absent" THEN 1
        ELSE IF bValue.t = "absent" THEN -1
        ELSE IF direction = "asc" THEN subtract(aValue, bValue)
        ELSE subtract(bValue, aValue)

\* chartData: the flights that pass the filter, grouped by route || 'Unknown', each
\* route with its count, average, target and variance, sorted by the chosen column.
\* The month and the year of a flight are those of its date (no flight of the model is
\* dated on the first or last day of a month, where the time zone could shift them).
chartData(propFlights, targets, month, year, aircraftSel, pilotSel, field, direction) ==
    LET filteredFlights ==
            SelectSeq(propFlights, LAMBDA flight :
                /\ (month = "all-months" \/ flight.date.m = parseInt(month))
                /\ (year = "all-years" \/ flight.date.y = parseInt(year))
                /\ (aircraftSel = "all-aircraft" \/ flight.aircraftId = aircraftSel)
                /\ (pilotSel = "all-pilots" \/ flight.pilotId = pilotSel))
        routeOf(flight) == IF Falsy(flight.route) THEN "Unknown" ELSE flight.route
        routes == firstAppearance([i \in DOMAIN filteredFlights |->
                                      routeOf(filteredFlights[i])])
        stats(route) ==
            LET routeFlights == SelectSeq(filteredFlights, LAMBDA f : routeOf(f) = route)
                flightCount == Len(routeFlights)
                sum == Sum([i \in DOMAIN routeFlights |-> totalTime(routeFlights[i]).v])
                targetTime == findTargetTime(targets, route, month, year, aircraftSel,
                                             pilotSel)
            IN  [route |-> route,
                 flightCount |-> flightCount,
                 averageTime |-> IF flightCount > 0 THEN Num(<<sum, flightCount>>)
                                 ELSE Num(<<0, 1>>),
                 targetTime |-> targetTime,
                 difference |-> reconcile(sum, flightCount, targetTime).difference,
                 percentDiff |-> reconcile(sum, flightCount, targetTime).percentDiff]
        rows == [n \in DOMAIN routes |-> stats(routes[n])]
    IN  sort(rows, [a \in DOMAIN rows, b \in DOMAIN rows |->
                       compareRows(rows[a], rows[b], field, direction)])

\* The filter selects: setSelectedMonth, setSelectedYear, setSelectedAircraft and
\* setSelectedPilot, each called with the value picked.
Select(hook, value) ==
    /\ view = "statistics"
    /\ selectedMonth' = IF hook = "month" THEN value ELSE selectedMonth
    /\ selectedYear' = IF hook = "year" THEN value ELSE selectedYear
    /\ selectedAircraft' = IF hook = "aircraft" THEN value ELSE selectedAircraft
    /\ selectedPilot' = IF hook = "pilot" THEN value ELSE selectedPilot
    /\ UNCHANGED <<view, mounted, isAdmin, pc, flights, flightsRendered, aircraft, pilots,
                   isLoading, location, toast, requests, failed, lateSetterCalls, arrived,
                   atStart, trace, arg, out, sortField, sortDirection>>
    /\ UNCHANGED <<listOnly, analyticsOnly, formOnly, now, timeZone, monthlyData, reports,
                   searchTerm>>

\* toggleSort(field), were the direction kept when the column changes.
ToggleSortKeepsDirection(field) ==
    /\ view = "statistics"
    /\ IF sortField = field
       THEN /\ sortDirection' = (IF sortDirection = "asc" THEN "desc" ELSE "asc")
            /\ UNCHANGED sortField
       ELSE /\ sortField' = field
            /\ UNCHANGED sortDirection
    /\ UNCHANGED <<view, mounted, isAdmin, pc, flights, flightsRendered, aircraft, pilots,
                   isLoading, location, toast, requests, failed, lateSetterCalls, arrived,
                   atStart, trace, arg, out, selectedMonth, selectedYear, selectedAircraft,
                   selectedPilot>>
    /\ UNCHANGED <<listOnly, analyticsOnly, formOnly, now, timeZone, monthlyData, reports,
                   searchTerm>>

\* toggleSort(field): a click on a column header.
ToggleSort(field) ==
    /\ view = "statistics"
    /\ IF sortField = field
       THEN /\ sortDirection' = (IF sortDirection = "asc" THEN "desc" ELSE "asc")
            /\ UNCHANGED sortField
       ELSE /\ sortField' = field
            /\ sortDirection' = "asc"
    /\ UNCHANGED <<view, mounted, isAdmin, pc, flights, flightsRendered, aircraft, pilots,
                   isLoading, location, toast, requests, failed, lateSetterCalls, arrived,
                   atStart, trace, arg, out, selectedMonth, selectedYear, selectedAircraft,
                   selectedPilot>>
    /\ UNCHANGED <<listOnly, analyticsOnly, formOnly, now, timeZone, monthlyData, reports,
                   searchTerm>>

\* resetFilters.
ResetFilters ==
    /\ view = "statistics"
    /\ selectedMonth' = "all-months"
    /\ selectedYear' = "all-years"
    /\ selectedAircraft' = "all-aircraft"
    /\ selectedPilot' = "all-pilots"
    /\ UNCHANGED <<view, mounted, isAdmin, pc, flights, flightsRendered, aircraft, pilots,
                   isLoading, location, toast, requests, failed, lateSetterCalls, arrived,
                   atStart, trace, arg, out, sortField, sortDirection>>
    /\ UNCHANGED <<listOnly, analyticsOnly, formOnly, now, timeZone, monthlyData, reports,
                   searchTerm>>

\* ------------------------------------------------------------------ monthly trend

\* PassengerSummaryContent, monthlyPassengers, over the flights of category SF or 135.
\* A date is a local calendar day.  subMonths keeps the day of the month, or takes the
\* last day of a shorter month; eachMonthOfInterval lists the first day of every month
\* from the month of start to the month of end; new Date(flight.date) of a stored
\* 'yyyy-MM-dd' is midnight UTC of that day, an instant of the day before in a time
\* zone west of UTC; startOfMonth and endOfMonth are the first and the last instant of
\* the month in local time.  The name is format(month, 'MMM yyyy'); passengers are
\* counted in units and their average in tenths.
monthlyPassengers(storedFlights, today, zone) ==
    LET relevantFlights == SelectSeq(storedFlights,
                                     LAMBDA flight : flight.category \in {"SF", "135"})
        daysIn(y, m) ==
            IF m = 2
            THEN (IF y % 4 = 0 /\ (y % 100 # 0 \/ y % 400 = 0) THEN 29 ELSE 28)
            ELSE IF m \in {4, 6, 9, 11} THEN 30 ELSE 31
        index(date) == 12 * date.y + (date.m - 1)
        subMonths(date, amount) ==
            LET y == (index(date) - amount) \div 12
                m == ((index(date) - amount) % 12) + 1
            IN  Date(y, m, IF date.d > daysIn(y, m) THEN daysIn(y, m) ELSE date.d)
        eachMonthOfInterval(start, end) ==
            [k \in 1..(index(end) - index(start) + 1) |->
                Date((index(start) + k - 1) \div 12, ((index(start) + k - 1) % 12) + 1, 1)]
        localDay(date) ==
            IF zone >= 0 THEN date
            ELSE IF date.d > 1 THEN Date(date.y, date.m, date.d - 1)
            ELSE subMonths(Date(date.y, date.m, 31), 1)
        MMM == <<"Jan", "Feb", "Mar", "Apr", "May", "Jun", "Jul", "Aug", "Sep", "Oct",
                 "Nov", "Dec">>
        months == eachMonthOfInterval(subMonths(today, 11), today)
        bucket(month) ==
            LET monthFlights ==
                    SelectSeq(relevantFlights, LAMBDA flight :
                        index(localDay(flight.date)) = index(month))
                passengers == Sum([i \in DOMAIN monthFlights |->
                                      numberOr0(monthFlights[i].passengerCount)])
                flightCount == Len(monthFlights)
            IN  [name |-> <<MMM[month.m], month.y>>,
                 passengers |-> passengers,
                 flights |-> flightCount,
                 average |-> IF flightCount # 0 THEN toFixed(10 * passengers, flightCount)
                             ELSE 0]
    IN  [k \in DOMAIN months |-> bucket(months[k])]

\* The first render of the passenger summary computes the memo.
RenderPassengers ==
    /\ view = "passengers"
    /\ monthlyData = << >>
    /\ monthlyData' = monthlyPassengers(flights, now, timeZone)
    /\ UNCHANGED <<view, mounted, isAdmin, pc, flights, flightsRendered, aircraft, pilots,
                   isLoading, location, toast, requests, failed, lateSetterCalls, arrived,
                   atStart, trace, arg, out, selectedMonth, selectedYear, selectedAircraft,
                   selectedPilot, sortField, sortDirection, now, timeZone, reports, searchTerm>>
    /\ UNCHANGED <<listOnly, analyticsOnly, formOnly>>

\* ------------------------------------------------------------------ specifications

NoToast == "<none>"

NoOut == [place |-> "none", hours |-> 0, t |-> "number"]

TraceOff == [on |-> FALSE, table |-> "", op |-> "", record |-> NoArg, before |-> << >>]

TraceOn == [TraceOff EXCEPT !.on = TRUE]

\* The hobbsTime effect has not run yet.
NoDeps == << >>

IdlePc ==
    [fetchData |-> "idle", fetchFlights |-> "idle", confirmDelete |-> "idle",
     checkAdmin |-> "idle", fetchTargetTimes |-> "idle", fetchAircraftAndPilots |-> "idle",
     fetchPilots |-> "idle", fetchAircraft |-> "idle", fetchFlight |-> "idle",
     onSubmit |-> "idle", fetchReports |-> "idle"]

\* The state of a view right after its first render, before its effects have run
\* (the initial values of its state hooks).  The clock and the time zone are read by
\* the passenger summary only.
Constructed(v) ==
    /\ view = v
    /\ mounted = TRUE
    /\ pc = IdlePc
    /\ flightsRendered = << >>
    /\ aircraft = << >>
    /\ pilots = << >>
    /\ aircraftList = << >>
    /\ isLoading = (v = Summary)
    /\ loading = TRUE
    /\ error = NULL
    /\ hasError = FALSE
    /\ errorMessage = ""
    /\ isAircraftPilotLoading = FALSE
    /\ aircraftPilotError = NULL
    /\ loadingAircraft = TRUE
    /\ loadingPilots = TRUE
    /\ pilotsError = NULL
    /\ deleteDialogOpen = FALSE
    /\ flightToDelete = NoId
    /\ deleteLoading = FALSE
    /\ closure = [flights |-> << >>, flightToDelete |-> NoId]
    /\ isSubmitting = FALSE
    /\ existingFlight = NoArg
    /\ loadingFlight = FALSE
    /\ toast = NoToast
    /\ requests = {}
    /\ failed = {}
    /\ lateSetterCalls = {}
    /\ arrived = [flights |-> << >>, aircraft |-> << >>]
    /\ atStart = [flights |-> << >>, aircraft |-> << >>]
    /\ out = NoOut
    /\ selectedMonth = "all-months"
    /\ selectedYear = "all-years"
    /\ selectedAircraft = "all-aircraft"
    /\ selectedPilot = "all-pilots"
    /\ sortField = "route"
    /\ sortDirection = "asc"
    /\ monthlyData = << >>
    /\ reports = << >>
    /\ searchTerm = ""
    /\ formValues = [tachStart |-> 0, tachEnd |-> 0, hobbsTime |-> 0]
    /\ effectDeps = NoDeps
    /\ selects = 0

InitSummary ==
    /\ Constructed(Summary)
    /\ now = Date(2025, 4, 15)
    /\ timeZone = 0
    /\ isAdmin = FALSE
    /\ targetTimes = << >>
    /\ location = "/summary"
    /\ trace = TraceOff
    /\ arg = NoArg
    /\ flights = << >>

InitList ==
    /\ Constructed(List)
    /\ now = Date(2025, 4, 15)
    /\ timeZone = 0
    /\ isAdmin \in BOOLEAN
    /\ targetTimes = << >>
    /\ location = "/flights"
    /\ trace = TraceOff
    /\ arg = NoArg
    /\ flights = << >>

\* useState(propTargets || []): the parent hands over any list of targets.
InitAnalytics ==
    /\ Constructed(Analytics)
    /\ now = Date(2025, 4, 15)
    /\ timeZone = 0
    /\ isAdmin = FALSE
    /\ targetTimes \in TargetLists
    /\ location = "/analytics"
    /\ trace = TraceOff
    /\ arg = NoArg
    /\ flights = << >>

InitForm ==
    /\ Constructed(Form)
    /\ now = Date(2025, 4, 15)
    /\ timeZone = 0
    /\ isAdmin = FALSE
    /\ targetTimes = << >>
    /\ location \in FormPaths
    /\ trace = TraceOff
    /\ arg = NoArg
    /\ flights = << >>

InitSafety ==
    /\ Constructed("SafetyList")
    /\ now = Date(2025, 4, 15)
    /\ timeZone = 0
    /\ isAdmin \in BOOLEAN
    /\ targetTimes = << >>
    /\ location = "/safety"
    /\ trace = TraceOff
    /\ arg = NoArg
    /\ flights = << >>

\* The steps of the summary while it is mounted.
StepsSummary ==
    \/ FetchData
    \/ \E res \in Results(FetchedFlightLists) : FetchDataFlights(res)
    \/ \E res \in Results(FetchedAircraftLists) : FetchDataAircraft(res)
    \/ \E row \in FlightRows : FlightInserted(row)
    \/ \E row \in FlightRows : FlightUpdated(row)
    \/ \E row \in FlightRows : FlightDeleted(row)
    \/ \E row \in AircraftRows : AircraftInserted(row)
    \/ \E row \in AircraftRows : AircraftUpdated(row)
    \/ \E row \in AircraftRows : AircraftDeleted(row)
    \/ RenderSummary

NextSummary == StepsSummary \/ Unmount

\* The steps of the flight list while it is mounted.
StepsList ==
    \/ FetchFlights
    \/ \E res \in Results(FetchedFlightLists) : FetchFlightsResult(res)
    \/ HandleNewFlightClick
    \/ \E id \in FlightIds : HandleFlightClick(id)
    \/ \E id \in FlightIds : HandleEditClick(id)
    \/ \E id \in FlightIds : HandleDeleteClick(id)
    \/ CancelDelete
    \/ ConfirmDelete
    \/ \E res \in MutationResults : ConfirmDeleteResult(res)

NextList == StepsList \/ Unmount

\* The steps of the route analytics while it is mounted.
StepsAnalytics ==
    \/ AnalyticsEffect
    \/ \E admin \in BOOLEAN : CheckAdminResult(admin)
    \/ FetchAircraftAndPilots
    \/ \E res \in Results(AircraftLists) : AnalyticsAircraft(res)
    \/ \E res \in Results(PilotLists) : AnalyticsPilots(res)
    \/ \E rendered \in BOOLEAN : FetchTargetTimes(rendered)
    \/ \E res \in Results(TargetRowLists) : FetchTargetTimesResult(res)
    \/ \E list \in HandedTargetLists : TargetsEffect(list)
    \/ \E list \in HandedTargetLists : HandleUpdateTargetTimes(list)

NextAnalytics == StepsAnalytics \/ Unmount

\* The steps of the flight form while it is mounted.
StepsForm ==
    \/ FetchPilots
    \/ \E res \in Results(PilotLists) : FetchPilotsResult(res)
    \/ FetchAircraft
    \/ \E res \in Results(AircraftLists) : FetchAircraftResult(res)
    \/ FetchFlight
    \/ \E res \in Results(FlightsById) : FetchFlightResult(res)
    \/ HobbsTimeEffect
    \/ BackToFlights
    \/ \E value \in {0, 80} : SetTach("tachStart", value)
    \/ \E value \in {0, 160} : SetTach("tachEnd", value)
    \/ OnSubmit
    \/ \E res \in MutationResults : OnSubmitResult(res)

NextForm == StepsForm \/ Unmount

NextSafety ==
    \/ FetchReports
    \/ \E res \in Results(ReportLists) : FetchReportsResult(res)
    \/ \E value \in SearchTerms : SetSearchTerm(value)
    \/ FetchReportsTimeout
    \/ HandleAddNew
    \/ HandleAdminReview
    \/ HandleViewReport(1)
    \/ Unmount

\* The views of the portal, one mounted per behaviour.
Init == InitSummary \/ InitList \/ InitAnalytics \/ InitForm \/ InitSafety

Next == NextSummary \/ NextList \/ NextAnalytics \/ NextForm \/ NextSafety

Spec == Init /\ [][Next]_vars

SpecSummary == InitSummary /\ [][NextSummary]_vars

SpecList == InitList /\ [][NextList]_vars

SpecAnalytics == InitAnalytics /\ [][NextAnalytics]_vars

SpecForm == InitForm /\ [][NextForm]_vars

\* The flight list and the flight form, the two views that issue mutations.
SpecMutations == (InitList \/ InitForm) /\ [][NextList \/ NextForm]_vars

\* The views that load lists, each kept mounted (after a teardown the setters of a late
\* result act on nothing, and no list changes).
SpecFetches ==
    /\ InitSummary \/ InitList \/ InitAnalytics \/ InitForm
    /\ [][StepsSummary \/ StepsList \/ StepsAnalytics \/ StepsForm]_vars

\* The refresh of the target times in the route analytics (without the load of aircraft
\* and pilots, which shares no state with it), with a backend that answers: the query of
\* fetchTargetTimes is settled at some time, with data, with an error or by a rejection,
\* and the event loop then runs the rest of the function.
NextRefresh ==
    \/ AnalyticsEffect
    \/ \E admin \in BOOLEAN : CheckAdminResult(admin)
    \/ \E rendered \in BOOLEAN : FetchTargetTimes(rendered)
    \/ \E res \in Results(TargetRowLists) : FetchTargetTimesResult(res)
    \/ \E list \in HandedTargetLists : TargetsEffect(list)
    \/ \E list \in HandedTargetLists : HandleUpdateTargetTimes(list)
    \/ Unmount

SpecRefresh ==
    /\ InitAnalytics
    /\ [][NextRefresh]_vars
    /\ WF_vars(\E res \in Results(TargetRowLists) : FetchTargetTimesResult(res))

\* The realtime projection of the summary on its own: both collections are Ready (the
\* initial fetch has stored its results), only notifications arrive, and the
\* notification log is on.
InitProjection ==
    /\ Constructed(Summary)
    /\ now = Date(2025, 4, 15)
    /\ timeZone = 0
    /\ isAdmin = FALSE
    /\ targetTimes = << >>
    /\ location = "/summary"
    /\ trace = TraceOn
    /\ arg = NoArg
    /\ flights = << >>

NextProjection ==
    \/ FetchData
    \/ FetchDataFlights(Ok(<< >>))
    \/ FetchDataAircraft(Ok(<< >>))
    \/ \E row \in FlightRows : FlightInserted(row)
    \/ \E row \in FlightRows : FlightUpdated(row)
    \/ \E row \in FlightRows : FlightDeleted(row)
    \/ \E row \in AircraftRows : AircraftInserted(row)
    \/ \E row \in AircraftRows : AircraftUpdated(row)
    \/ \E row \in AircraftRows : AircraftDeleted(row)

SpecProjection == InitProjection /\ [][NextProjection]_vars

\* The duration resolver of every place, applied to one flight.
InitResolver ==
    /\ Constructed("resolver")
    /\ now = Date(2025, 4, 15)
    /\ timeZone = 0
    /\ isAdmin = FALSE
    /\ targetTimes = << >>
    /\ location = ""
    /\ trace = TraceOff
    /\ arg \in ResolverFlights
    /\ flights = << >>

NextResolver ==
    \/ ResolveAircraftStats
    \/ ResolvePilotStats
    \/ ResolveRouteStats
    \/ ResolveTotalHoursCard
    \/ ResolveHoursFlown
    \/ ResolveOverallStats
    \/ ResolveChartData

SpecResolver == InitResolver /\ [][NextResolver]_vars

\* The statistics the views derive from a flight collection (each is a useMemo of the
\* state): the views are given any flight collection and no target, or three flights
\* of three routes and any targets, and the filter and the sort column are then changed.
InitStatistics ==
    /\ Constructed("statistics")
    /\ now = Date(2025, 4, 15)
    /\ timeZone = 0
    /\ isAdmin = FALSE
    /\ location = ""
    /\ trace = TraceOff
    /\ arg = NoArg
    /\ flights \in StatFlightLists
    /\ \/ targetTimes = << >>
       \/ /\ Len(flights) = 3
          /\ flights[1].route = "ABC" /\ flights[2].route = "XYZ" /\ flights[3].route = NULL
          /\ targetTimes \in ChartTargetLists

NextStatistics ==
    \/ \E value \in {"all-months", "3"} : Select("month", value)
    \/ \E value \in {"all-years", "2025"} : Select("year", value)
    \/ \E value \in {"all-aircraft", "X", "Y"} : Select("aircraft", value)
    \/ \E value \in {"all-pilots", "p1"} : Select("pilot", value)
    \/ \E field \in {"route", "flightCount", "averageTime", "targetTime", "difference",
                     "percentDiff"} : ToggleSort(field)
    \/ ResetFilters

SpecStatistics == InitStatistics /\ [][NextStatistics]_vars

\* The passenger summary over any stored flights, rendered on a day at the end of a
\* month, in the middle of one and in January, in a time zone west of UTC, at UTC and
\* east of it.  The stored flight without route is dated on the first day of a month.
InitPassengers ==
    /\ Constructed("passengers")
    /\ isAdmin = FALSE
    /\ targetTimes = << >>
    /\ location = ""
    /\ trace = TraceOff
    /\ arg = NoArg
    /\ now \in {Date(2025, 3, 31), Date(2025, 4, 15), Date(2026, 1, 31)}
    /\ timeZone \in {-8, 0, 2}
    /\ flights \in {[i \in DOMAIN l |->
                        IF l[i].route = NULL THEN [l[i] EXCEPT !.date = Date(2024, 5, 1)]
                        ELSE l[i]] : l \in StatFlightLists}

NextPassengers == RenderPassengers

SpecPassengers == InitPassengers /\ [][NextPassengers]_vars

\* ------------------------------------------------------------------ realtime projection

\* The collection the last logged notification was applied to, as it is now.
Projected == IF trace.table = "flights" THEN flights ELSE aircraft

\* The entity the handlers build from the last logged notification.
Mapped ==
    IF trace.table = "flights" THEN toFlight(trace.record)
    ELSE normalizeAircraft(toAircraftInput(trace.record))

\* C1: Insert is idempotent against duplicate delivery. After onInsert(record), for the
\* flights and for the aircraft collection: if an entity with the record's id was in the
\* collection, the collection is unchanged; otherwise it is the collection before with
\* the entity built from the record appended at its end.
InsertIdempotent ==
    trace.op = "INSERT" =>
        IF SomeId(trace.before, trace.record.id)
        THEN Projected = trace.before
        ELSE /\ Len(Projected) = Len(trace.before) + 1
             /\ SubSeq(Projected, 1, Len(trace.before)) = trace.before
             /\ Projected[Len(Projected)] = Mapped
             /\ Projected[Len(Projected)].id = trace.record.id

\* A duplicate INSERT was delivered to a flights collection of two and to none of the
\* aircraft.
DuplicateInsertDelivered ==
    /\ trace.op = "INSERT" /\ trace.table = "flights"
    /\ SomeId(trace.before, trace.record.id)
    /\ Len(flights) = MaxFlightId

\* C2: Update replaces the entity with the matching id and is a no-op without one. After
\* onUpdate(record) the collection has the size it had, every element whose id is not
\* the record's is unchanged at its position, an element with the record's id holds the
\* entity built from the record, and the flights keep the order of their ids.
UpdateReplaces ==
    trace.op = "UPDATE" =>
        /\ Len(Projected) = Len(trace.before)
        /\ \A i \in 1..Len(trace.before) :
               IF trace.before[i].id = trace.record.id
               THEN Projected[i] = Mapped
               ELSE Projected[i] = trace.before[i]
        /\ trace.table = "flights" =>
               \A i \in 1..Len(trace.before) : Projected[i].id = trace.before[i].id
        /\ ~SomeId(trace.before, trace.record.id) => Projected = trace.before

\* An UPDATE changed one flight of two.
UpdateDelivered ==
    /\ trace.op = "UPDATE" /\ trace.table = "flights"
    /\ SomeId(trace.before, trace.record.id)
    /\ flights # trace.before
    /\ Len(flights) = MaxFlightId

\* C3: Delete removes the entity with the matching id and is a no-op without one. After
\* onDelete(record) no element has the record's id and the other elements are the
\* elements before in their order; and Insert(A), Update(A'), Delete(A) applied to the
\* collection at hand leaves it without an entity with A's id.
DeleteRemoves ==
    /\ trace.op = "DELETE" =>
           /\ ~SomeId(Projected, trace.record.id)
           /\ Projected = SelectSeq(trace.before, LAMBDA e : e.id # trace.record.id)
           /\ ~SomeId(trace.before, trace.record.id) => Projected = trace.before
    /\ \A a1 \in FlightRows : \A a2 \in FlightRows :
           a1.id = a2.id =>
               ~SomeId(flightsOnDelete(flightsOnUpdate(flightsOnInsert(flights, a1), a2), a1),
                       a1.id)
    /\ \A a1 \in AircraftRows : \A a2 \in AircraftRows :
           a1.id = a2.id =>
               ~SomeId(aircraftOnDelete(aircraftOnUpdate(aircraftOnInsert(aircraft, a1), a2),
                                        a1),
                       a1.id)

\* A DELETE removed the first of two flights.
DeleteDelivered ==
    /\ trace.op = "DELETE" /\ trace.table = "flights"
    /\ Len(trace.before) = 2
    /\ trace.before[1].id = trace.record.id
    /\ Len(flights) = 1

\* C4: notifications are applied in arrival order, each to the collection the previous
\* one left. The flights and the aircraft of the summary are the left fold of the
\* handlers' transitions over the notifications in their order of arrival (starting
\* from what the fetch stored), whatever the last render showed.
ArrivalOrderFold ==
    view = Summary => arrived.flights = flights /\ arrived.aircraft = aircraft

\* Two flights were inserted before the fetch answered and with no render in between:
\* the second handler's closure still held the empty list.
TwoInsertsBeforeRender ==
    /\ view = Summary
    /\ pc.fetchData = "getAllFlights"
    /\ Len(flights) = 2
    /\ flightsRendered = << >>

\* ------------------------------------------------------------------ teardown and failures

\* C5: the dangling-update guard. No state setter of a view is invoked after the view
\* was torn down: the result of a fetch that arrives late is discarded.
NoSetterAfterTeardown == lateSetterCalls = {}

\* The function fn of the mounted view v waits for the answer to call.
Awaits(v, fn, call) == view = v /\ pc[fn] = call

\* A step in which a fetch of flights ends without flights to store: in an error
\* result, in a result without data, or in a thrown exception.
FlightsFetchFails ==
    \/ /\ Awaits(Summary, "fetchData", "getAllFlights")
       /\ \E res \in Failures : FetchDataFlights(res)
    \/ /\ Awaits(List, "fetchFlights", "getAllFlights")
       /\ \E res \in Failures : FetchFlightsResult(res)

\* A step in which a fetch of aircraft ends in an error result or a thrown exception
\* (in a result without data too, where the view stores under success && data; the
\* route analytics stores [] for a success without data).
AircraftFetchFails ==
    \/ /\ Awaits(Summary, "fetchData", "getAllAircraft")
       /\ \E res \in Failures : FetchDataAircraft(res)
    \/ /\ Awaits(Analytics, "fetchAircraftAndPilots", "getAllAircraft")
       /\ \E res \in Rejected : AnalyticsAircraft(res)
    \/ /\ Awaits(Form, "fetchAircraft", "getAllAircraft")
       /\ \E res \in Failures : FetchAircraftResult(res)

\* A step in which a fetch of pilots ends in an error result or a thrown exception (in
\* a result without data too, in the form).
PilotsFetchFails ==
    \/ /\ Awaits(Analytics, "fetchAircraftAndPilots", "getAllPilots")
       /\ \E res \in Rejected : AnalyticsPilots(res)
    \/ /\ Awaits(Form, "fetchPilots", "getAllPilots")
       /\ \E res \in Failures : FetchPilotsResult(res)

\* A step in which the query of the target times answers with an error or is rejected.
TargetsFetchFails ==
    /\ Awaits(Analytics, "fetchTargetTimes", "select")
    /\ \E res \in {Err, Thrown} : FetchTargetTimesResult(res)

\* A step in which confirmDelete ends with deleteFlight failed or thrown.
DeleteFails ==
    /\ Awaits(List, "confirmDelete", "deleteFlight")
    /\ \E res \in Rejected : ConfirmDeleteResult(res)

\* A step in which onSubmit ends with createFlight or updateFlight failed or thrown.
SubmitFails ==
    /\ view = Form /\ pc.onSubmit \in {"createFlight", "updateFlight"}
    /\ \E res \in Rejected : OnSubmitResult(res)

\* C6 as stated: when a fetch of flights ends in an error result or a thrown exception,
\* the flights have exactly the value they had before that fetch started.
FailedFetchRestoresStart ==
    [][FlightsFetchFails => flights' = atStart.flights]_vars

\* C6, amended: a fetch that ends in an error result or a thrown exception leaves the
\* list it was to load (flights, aircraft, pilots, target times) as it was when the
\* result arrived, that is the value before the fetch started with whatever the
\* realtime handlers and the target management applied meanwhile; it never clears it.
FailedFetchKeepsData ==
    [][/\ FlightsFetchFails => flights' = flights
       /\ AircraftFetchFails => aircraft' = aircraft /\ aircraftList' = aircraftList
       /\ PilotsFetchFails => pilots' = pilots
       /\ TargetsFetchFails => targetTimes' = targetTimes]_vars

\* A refresh of the target times failed and the targets loaded before are in place; and
\* the summary's fetch of flights failed with a flight in the list.
FailedWithDataInPlace ==
    \/ /\ view = Analytics /\ hasError /\ "route_target_times" \in failed
       /\ targetTimes # << >>
    \/ /\ view = Summary /\ "getAllFlights" \in failed
       /\ flights # << >>

\* C7: datasets loaded by one view fail independently. Once the load of a view has
\* ended with the fetch of its first dataset failed, the fetch of its second dataset
\* was issued all the same.
SecondFetchIssued ==
    /\ (view = Analytics /\ pc.fetchAircraftAndPilots = "done" /\ "getAllAircraft" \in failed)
           => "getAllPilots" \in requests
    /\ (view = Summary /\ pc.fetchData = "done" /\ "getAllFlights" \in failed)
           => "getAllAircraft" \in requests
    /\ (view = Form /\ pc.fetchPilots = "done" /\ pc.fetchAircraft # "idle"
            /\ "getAllPilots" \in failed)
           => "getAllAircraft" \in requests

\* C8: a mutation the backend rejects leaves the local state as it was. A confirmDelete
\* whose deleteFlight fails or throws leaves the flights (the list the call started
\* with) and the error state untouched and shows the failure notification; an onSubmit
\* whose createFlight or updateFlight fails or throws stays on the form.
RejectedMutationKeepsState ==
    [][/\ DeleteFails
              => /\ flights' = flights
                 /\ flights' = closure.flights
                 /\ error' = error
                 /\ toast' = "Failed to delete flight. Please try again later."
       /\ SubmitFails
              => /\ location' = location
                 /\ toast' \in {"Failed to submit flight data.", "error.message",
                                "Failed to create flight.", "Failed to update flight."}]_vars

\* A delete was rejected with the list open on its flights.
DeleteRejected ==
    /\ view = List /\ mounted
    /\ pc.confirmDelete = "done" /\ "deleteFlight" \in failed
    /\ toast = "Failed to delete flight. Please try again later."
    /\ Len(flights) = MaxFlightId

\* ------------------------------------------------------------------ resolved duration

\* C9: the resolved duration is never negative, in any place it is computed.
ResolvedNonNegative == out.place # "none" => out.hours >= 0

\* The places of the summary that resolve a duration.
SummaryPlaces == {"aircraftStats", "pilotStats", "routeStats", "totalHoursCard"}

\* C10: in the summary, the resolved duration is hobbsTime whenever hobbsTime (as a
\* number, 0 when absent or not numeric) is not zero, whatever the tach readings; the
\* tach difference max(0, tachEnd - tachStart) is the result only when it is zero.
HobbsPreferred ==
    out.place \in SummaryPlaces =>
        LET hobbsTime == parseFloatOr0(arg.hobbsTime)
            diff == parseFloatOr0(arg.tachEnd) - parseFloatOr0(arg.tachStart)
        IN  /\ hobbsTime # 0 => out.hours = hobbsTime
            /\ hobbsTime = 0 => out.hours = (IF diff > 0 THEN diff ELSE 0)
            /\ out.hours # hobbsTime => hobbsTime = 0

\* The pilot statistics resolved a flight with a hobbs time and regressing tach readings.
HobbsOverTachRegression ==
    /\ out.place = "pilotStats"
    /\ arg.hobbsTime = Str(15)
    /\ arg.tachStart = Num(120) /\ arg.tachEnd = Num(100)
    /\ out.hours = 15

\* C11: the duration a flight contributes is the same number in every place that
\* totals durations: the summary (per aircraft, per pilot, per route, overall), the
\* route analytics (totalTime) and the fuel analysis (per aircraft, overall) all yield
\* the resolver's value, hobbsTime if not zero and else max(0, tachEnd - tachStart).
SameDurationEverywhere ==
    out.place # "none" => out.t = "number" /\ out.hours = aircraftStatsHours(arg)

\* ------------------------------------------------------------------ grouping and statistics

\* C12: grouping is a partition.  The flight counts of the groups add up to the number
\* of flights grouped (for the aircraft grouping the flights that have an aircraftId,
\* for the analytics table the flights that pass the filter), the groups have distinct
\* keys, and every such flight is counted in the group of its key and in no other.
GroupingIsPartition ==
    view = "statistics" =>
    LET Count(fs, Test(_)) == Cardinality({i \in DOMAIN fs : Test(fs[i])})
        Distinct(keys) == \A i, j \in DOMAIN keys : keys[i] = keys[j] => i = j
        byAircraft == flightsByAircraft(flights)
        aircraftRows == aircraftStats(flights, aircraft)
        pilotRows == pilotStats(flights)
        routeRows == routeStats(flights)
        chartRows == chartData(flights, targetTimes, selectedMonth, selectedYear,
                               selectedAircraft, selectedPilot, sortField, sortDirection)
        pilotOf(f) == IF Falsy(f.pilotName) THEN "Unknown" ELSE f.pilotName
        localOf(f) == IF Falsy(f.route) THEN "Local" ELSE f.route
        unknownOf(f) == IF Falsy(f.route) THEN "Unknown" ELSE f.route
        Passes(f) ==
            /\ selectedMonth = "all-months" \/ f.date.m = parseInt(selectedMonth)
            /\ selectedYear = "all-years" \/ f.date.y = parseInt(selectedYear)
            /\ selectedAircraft = "all-aircraft" \/ f.aircraftId = selectedAircraft
            /\ selectedPilot = "all-pilots" \/ f.pilotId = selectedPilot
    IN  /\ Sum([n \in DOMAIN aircraftRows |-> aircraftRows[n].flightCount])
               = Count(flights, LAMBDA f : ~Falsy(f.aircraftId))
        /\ Len(aircraftRows) = Len(byAircraft)
        /\ Distinct([n \in DOMAIN aircraftRows |-> aircraftRows[n].id])
        /\ \A n \in DOMAIN byAircraft :
               /\ aircraftRows[n].id = byAircraft[n].aircraftId
               /\ aircraftRows[n].flightCount = Len(byAircraft[n].aircraftFlights)
        /\ \A i \in DOMAIN flights :
               Cardinality({<<n, k>> \in (DOMAIN byAircraft) \X (DOMAIN flights) :
                               /\ k \in DOMAIN byAircraft[n].aircraftFlights
                               /\ byAircraft[n].aircraftFlights[k] = flights[i]})
                   = IF Falsy(flights[i].aircraftId) THEN 0 ELSE 1
        /\ Sum([n \in DOMAIN pilotRows |-> pilotRows[n].flights]) = Len(flights)
        /\ Distinct([n \in DOMAIN pilotRows |-> pilotRows[n].name])
        /\ \A i \in DOMAIN flights : \E n \in DOMAIN pilotRows :
               /\ pilotRows[n].name = pilotOf(flights[i])
               /\ pilotRows[n].flights
                      = Count(flights, LAMBDA f : pilotOf(f) = pilotOf(flights[i]))
        /\ Sum([n \in DOMAIN routeRows |-> routeRows[n].flights]) = Len(flights)
        /\ Distinct([n \in DOMAIN routeRows |-> routeRows[n].name])
        /\ \A i \in DOMAIN flights : \E n \in DOMAIN routeRows :
               /\ routeRows[n].name = localOf(flights[i])
               /\ routeRows[n].flights
                      = Count(flights, LAMBDA f : localOf(f) = localOf(flights[i]))
        /\ Sum([n \in DOMAIN chartRows |-> chartRows[n].flightCount])
               = Count(flights, Passes)
        /\ Distinct([n \in DOMAIN chartRows |-> chartRows[n].route])
        /\ \A i \in DOMAIN flights : Passes(flights[i]) =>
               \E n \in DOMAIN chartRows :
                   /\ chartRows[n].route = unknownOf(flights[i])
                   /\ chartRows[n].flightCount
                          = Count(flights, LAMBDA f : Passes(f)
                                                      /\ unknownOf(f) = unknownOf(flights[i]))

\* Three flights, two of one aircraft and one without aircraft, pilot and route, are
\* grouped, and the analytics table is filtered to the aircraft.
GroupedWithKeylessFlight ==
    /\ view = "statistics"
    /\ Len(flights) = 3
    /\ flights[1].aircraftId = "X" /\ flights[2].aircraftId = NULL
    /\ flights[3].aircraftId = "X"
    /\ Len(flightsByAircraft(flights)) = 1
    /\ aircraftStats(flights, aircraft)[1].flightCount = 2
    /\ Len(pilotStats(flights)) >= 2
    /\ selectedAircraft = "X"
    /\ Len(chartData(flights, targetTimes, selectedMonth, selectedYear, selectedAircraft,
                     selectedPilot, sortField, sortDirection)) = 2

\* C13: per-group statistics.  In the aircraft statistics of the summary and in the
\* analytics table, a group's flightCount is the number of its flights, its total is the
\* sum of the resolved durations of its flights (hobbsTime if not zero, else
\* max(0, tachEnd - tachStart)), and its average is total / flightCount (shown to one
\* decimal in the summary).
GroupStatistics ==
    view = "statistics" =>
    LET aircraftRows == aircraftStats(flights, aircraft)
        chartRows == chartData(flights, targetTimes, selectedMonth, selectedYear,
                               selectedAircraft, selectedPilot, sortField, sortDirection)
        Passes(f) ==
            /\ selectedMonth = "all-months" \/ f.date.m = parseInt(selectedMonth)
            /\ selectedYear = "all-years" \/ f.date.y = parseInt(selectedYear)
            /\ selectedAircraft = "all-aircraft" \/ f.aircraftId = selectedAircraft
            /\ selectedPilot = "all-pilots" \/ f.pilotId = selectedPilot
        unknownOf(f) == IF Falsy(f.route) THEN "Unknown" ELSE f.route
        Duration(fs) == Sum([i \in DOMAIN fs |-> aircraftStatsHours(fs[i])])
    IN  /\ \A n \in DOMAIN aircraftRows :
               LET own == SelectSeq(flights, LAMBDA f : f.aircraftId = aircraftRows[n].id)
                   row == aircraftRows[n]
               IN  /\ row.flightCount = Len(own)
                   /\ row.totalHours = Duration(own)
                   /\ 2 * row.averageFlightTime * row.flightCount
                          \in (2 * row.totalHours - row.flightCount + 1)
                              ..(2 * row.totalHours + row.flightCount)
        /\ \A n \in DOMAIN chartRows :
               LET own == SelectSeq(flights, LAMBDA f : Passes(f)
                                                        /\ unknownOf(f) = chartRows[n].route)
                   row == chartRows[n]
               IN  /\ row.flightCount = Len(own)
                   /\ row.averageTime.v[1] * row.flightCount
                          = Duration(own) * row.averageTime.v[2]

\* ------------------------------------------------------------------ target reconciliation

\* C14: a target matches a route exactly when its route is the route and each of its
\* aircraftId, pilotId, month and year is unset or equals the filter selection.
MatchesIffUnsetOrSelected ==
    view = "statistics" =>
    LET chartRows == chartData(flights, targetTimes, selectedMonth, selectedYear,
                               selectedAircraft, selectedPilot, sortField, sortDirection)
    IN  \A n \in DOMAIN chartRows : \A i \in DOMAIN targetTimes :
            LET t == targetTimes[i] IN
            targetMatches(t, chartRows[n].route, selectedMonth, selectedYear,
                          selectedAircraft, selectedPilot)
            <=> /\ t.route = chartRows[n].route
                /\ Falsy(t.aircraftId) \/ t.aircraftId = selectedAircraft
                /\ Falsy(t.pilotId) \/ t.pilotId = selectedPilot
                /\ t.month = NoPeriod \/ t.month = parseInt(selectedMonth)
                /\ t.year = NoPeriod \/ t.year = parseInt(selectedYear)

\* C15: when several targets match a route, the first of them in the order of the
\* targets collection decides.  The targetTime of a row is the target time of the
\* matching target of lowest index (read as null when it is 0, or when no target
\* matches): it is determined by the targets sequence, the route and the filter
\* selection, whatever the flights and the sort column are.
FirstMatchDecides ==
    view = "statistics" =>
    LET chartRows == chartData(flights, targetTimes, selectedMonth, selectedYear,
                               selectedAircraft, selectedPilot, sortField, sortDirection)
        Matching(route) ==
            {i \in DOMAIN targetTimes :
                targetMatches(targetTimes[i], route, selectedMonth, selectedYear,
                              selectedAircraft, selectedPilot)}
        Lowest(S) == CHOOSE i \in S : \A j \in S : i <= j
    IN  \A n \in DOMAIN chartRows :
            LET M == Matching(chartRows[n].route) IN
            IF M = {} THEN chartRows[n].targetTime.t = "absent"
            ELSE LET first == targetTimes[Lowest(M)].targetTime
                 IN  IF first = 0 THEN chartRows[n].targetTime.t = "absent"
                     ELSE /\ chartRows[n].targetTime.t = "number"
                          /\ chartRows[n].targetTime.v = <<first, 1>>

\* Two targets with different target times match route ABC, and the route has the
\* target time of the one that comes first in targetTimes.
FirstOfTwoMatchesTaken ==
    /\ view = "statistics"
    /\ Len(targetTimes) = 2
    /\ targetTimes[1].targetTime # targetTimes[2].targetTime
    /\ \A i \in 1..2 : targetMatches(targetTimes[i], "ABC", selectedMonth, selectedYear,
                                     selectedAircraft, selectedPilot)
    /\ LET chartRows == chartData(flights, targetTimes, selectedMonth, selectedYear,
                                  selectedAircraft, selectedPilot, sortField, sortDirection)
       IN  \E n \in DOMAIN chartRows :
               /\ chartRows[n].route = "ABC"
               /\ chartRows[n].targetTime.t = "number"
               /\ chartRows[n].targetTime.v = <<targetTimes[1].targetTime, 1>>
    /\ sortField = "flightCount"

\* C16: a route that no target matches has targetTime, difference and percentDiff null,
\* and so has a route whose matching target (the first one) has a target time of 0;
\* percentDiff is never a quotient by zero.
UnmatchedRouteHasNulls ==
    view = "statistics" =>
    LET chartRows == chartData(flights, targetTimes, selectedMonth, selectedYear,
                               selectedAircraft, selectedPilot, sortField, sortDirection)
        Matching(route) ==
            {i \in DOMAIN targetTimes :
                targetMatches(targetTimes[i], route, selectedMonth, selectedYear,
                              selectedAircraft, selectedPilot)}
    IN  \A n \in DOMAIN chartRows :
            LET M == Matching(chartRows[n].route)
                row == chartRows[n]
            IN  /\ (M = {} \/ \E i \in M : /\ \A j \in M : i <= j
                                           /\ targetTimes[i].targetTime = 0)
                       => /\ row.targetTime.t = "absent"
                          /\ row.difference.t = "absent"
                          /\ row.percentDiff.t = "absent"
                /\ row.percentDiff.t = "number" => row.percentDiff.v[2] # 0
                /\ row.targetTime.t = "number" => row.targetTime.v[1] # 0

\* The table shows a route whose target has a target time of 0 and a route without any
\* target, both with null target, difference and percentDiff, next to a route that has
\* its target.
ZeroTargetShownAsNone ==
    /\ view = "statistics"
    /\ \E i \in DOMAIN targetTimes :
           /\ targetTimes[i].targetTime = 0
           /\ targetMatches(targetTimes[i], "XYZ", selectedMonth, selectedYear,
                            selectedAircraft, selectedPilot)
    /\ LET chartRows == chartData(flights, targetTimes, selectedMonth, selectedYear,
                                  selectedAircraft, selectedPilot, sortField, sortDirection)
       IN  /\ Len(chartRows) = 3
           /\ \E n \in DOMAIN chartRows :
                  /\ chartRows[n].route = "XYZ" /\ chartRows[n].flightCount = 1
                  /\ chartRows[n].targetTime.t = "absent"
                  /\ chartRows[n].percentDiff.t = "absent"
           /\ \E n \in DOMAIN chartRows :
                  /\ chartRows[n].route = "Unknown" /\ chartRows[n].difference.t = "absent"
           /\ \E n \in DOMAIN chartRows :
                  /\ chartRows[n].route = "ABC" /\ chartRows[n].percentDiff.t = "number"

\* C17: for a route with a target (a target time that is not 0), difference is
\* averageTime - targetTime and percentDiff is (averageTime / targetTime - 1) * 100,
\* averageTime being the average the row shows for the route.  With the quotients
\* averageTime = a / b, difference = p / q and percentDiff = r / s and the target T:
\* p / q = (a - T b) / b and r / s = 100 (a - T b) / (T b).
VarianceOfTarget ==
    view = "statistics" =>
    LET chartRows == chartData(flights, targetTimes, selectedMonth, selectedYear,
                               selectedAircraft, selectedPilot, sortField, sortDirection)
    IN  \A n \in DOMAIN chartRows :
            LET row == chartRows[n] IN
            row.targetTime.t = "number" =>
                LET T == row.targetTime.v[1]
                    a == row.averageTime.v[1]
                    b == row.averageTime.v[2]
                IN  /\ row.targetTime.v[2] = 1 /\ T # 0 /\ b > 0
                    /\ row.difference.t = "number" /\ row.percentDiff.t = "number"
                    /\ row.difference.v[2] # 0 /\ row.percentDiff.v[2] # 0
                    /\ row.difference.v[1] * b = (a - T * b) * row.difference.v[2]
                    /\ row.percentDiff.v[1] * (T * b)
                           = 100 * (a - T * b) * row.percentDiff.v[2]

\* Route ABC has an average of 2.0 hours against a target of 1.5 hours: difference
\* 0.5 hours, percentDiff a third of a hundred.
AboveTarget ==
    /\ view = "statistics"
    /\ LET chartRows == chartData(flights, targetTimes, selectedMonth, selectedYear,
                                  selectedAircraft, selectedPilot, sortField, sortDirection)
       IN  \E n \in DOMAIN chartRows :
               /\ chartRows[n].route = "ABC"
               /\ chartRows[n].averageTime.v = <<20, 1>>
               /\ chartRows[n].targetTime.t = "number"
               /\ chartRows[n].targetTime.v = <<15, 1>>
               /\ chartRows[n].difference.v = <<5, 1>>
               /\ 3 * chartRows[n].percentDiff.v[1] = 100 * chartRows[n].percentDiff.v[2]

\* ------------------------------------------------------------------ sorting

\* C18: sorted by a column that is null in some rows (targetTime, difference,
\* percentDiff), the table has every row with null after every row with a value, in
\* ascending and in descending direction alike, and the rows with null follow one
\* another in the order in which their routes first appear among the filtered flights.
NullsSortLast ==
    view = "statistics" /\ sortField \in {"targetTime", "difference", "percentDiff"} =>
    LET chartRows == chartData(flights, targetTimes, selectedMonth, selectedYear,
                               selectedAircraft, selectedPilot, sortField, sortDirection)
        Passes(f) ==
            /\ selectedMonth = "all-months" \/ f.date.m = parseInt(selectedMonth)
            /\ selectedYear = "all-years" \/ f.date.y = parseInt(selectedYear)
            /\ selectedAircraft = "all-aircraft" \/ f.aircraftId = selectedAircraft
            /\ selectedPilot = "all-pilots" \/ f.pilotId = selectedPilot
        unknownOf(f) == IF Falsy(f.route) THEN "Unknown" ELSE f.route
        Appears(route) == {i \in DOMAIN flights : Passes(flights[i])
                                                  /\ unknownOf(flights[i]) = route}
        IsNull(n) == chartRows[n][sortField].t = "absent"
    IN  \A n, k \in DOMAIN chartRows : n < k =>
            /\ IsNull(n) => IsNull(k)
            /\ IsNull(n) /\ IsNull(k) =>
                   \E i \in Appears(chartRows[n].route) :
                       \A j \in Appears(chartRows[k].route) : i < j

\* Sorted by targetTime in descending direction: the route with a target comes first
\* although it appears second among the flights, and the two routes without target
\* follow in the order of their appearance.
NullsLastWhenDescending ==
    /\ view = "statistics"
    /\ sortField = "targetTime" /\ sortDirection = "desc"
    /\ Len(flights) = 3 /\ flights[1].route = "ABC" /\ flights[2].route = "XYZ"
    /\ LET chartRows == chartData(flights, targetTimes, selectedMonth, selectedYear,
                                  selectedAircraft, selectedPilot, sortField, sortDirection)
       IN  /\ Len(chartRows) = 3
           /\ chartRows[1].route = "XYZ" /\ chartRows[1].targetTime.t = "number"
           /\ chartRows[2].route = "ABC" /\ chartRows[2].targetTime.t = "absent"
           /\ chartRows[3].route = "Unknown" /\ chartRows[3].targetTime.t = "absent"

\* C19: as first shown (sort column and direction as the views set them up), every
\* grouped output is in descending order of its primary count or sum, groups with
\* equal values in the order in which their keys first appear in the flight collection:
\* the aircraft, pilot and route statistics of the summary by their number of flights,
\* the passenger statistics by their passengers, the analytics table by its number of
\* flights.
DefaultOrderDescending ==
    view = "statistics" /\ sortField = "route" /\ sortDirection = "asc" =>
    LET Descending(rows, Metric(_), Key(_), keys) ==
            \A n, k \in DOMAIN rows : n < k =>
                /\ Metric(rows[n]) >= Metric(rows[k])
                /\ Metric(rows[n]) = Metric(rows[k]) =>
                       \E i \in DOMAIN keys :
                           /\ keys[i] = Key(rows[n])
                           /\ \A j \in DOMAIN keys : keys[j] = Key(rows[k]) => i < j
        relevant == SelectSeq(flights, LAMBDA f : f.category \in {"SF", "135"})
        Passes(f) ==
            /\ selectedMonth = "all-months" \/ f.date.m = parseInt(selectedMonth)
            /\ selectedYear = "all-years" \/ f.date.y = parseInt(selectedYear)
            /\ selectedAircraft = "all-aircraft" \/ f.aircraftId = selectedAircraft
            /\ selectedPilot = "all-pilots" \/ f.pilotId = selectedPilot
        filtered == SelectSeq(flights, Passes)
    IN  /\ Descending(aircraftStats(flights, aircraft),
                      LAMBDA row : row.flightCount, LAMBDA row : row.id,
                      [i \in DOMAIN flights |-> flights[i].aircraftId])
        /\ Descending(pilotStats(flights),
                      LAMBDA row : row.flights, LAMBDA row : row.name,
                      [i \in DOMAIN flights |->
                          IF Falsy(flights[i].pilotName) THEN "Unknown"
                          ELSE flights[i].pilotName])
        /\ Descending(routeStats(flights),
                      LAMBDA row : row.flights, LAMBDA row : row.name,
                      [i \in DOMAIN flights |->
                          IF Falsy(flights[i].route) THEN "Local" ELSE flights[i].route])
        /\ Descending(passengersByAircraft(flights, aircraft),
                      LAMBDA row : row.passengers, LAMBDA row : row.id,
                      [i \in DOMAIN relevant |->
                          IF relevant[i].aircraftId = NULL THEN "null"
                          ELSE relevant[i].aircraftId])
        /\ Descending(passengersByRoute(flights),
                      LAMBDA row : row.passengers, LAMBDA row : row.name,
                      [i \in DOMAIN relevant |->
                          IF Falsy(relevant[i].route) THEN "Local" ELSE relevant[i].route])
        /\ Descending(chartData(flights, targetTimes, selectedMonth, selectedYear,
                                selectedAircraft, selectedPilot, sortField, sortDirection),
                      LAMBDA row : row.flightCount, LAMBDA row : row.route,
                      [i \in DOMAIN filtered |->
                          IF Falsy(filtered[i].route) THEN "Unknown"
                          ELSE filtered[i].route])

\* C20: a flight without aircraftId is in no group of a grouping by aircraft and makes
\* no group of its own, in the summary (flightsByAircraft), in the passenger summary
\* (passengersByAircraft) and in the fuel analysis (fuelAnalysisByAircraft) alike: no
\* group has an empty key, and the flights and passengers of the groups are those of the
\* flights that have an aircraftId.  The groupings by pilot and by route leave no flight
\* out.
AircraftGroupingSkipsKeyless ==
    view = "statistics" =>
    LET byAircraft == flightsByAircraft(flights)
        byPassengers == passengersByAircraft(flights, aircraft)
        byFuel == fuelAnalysisByAircraft(flights, aircraft)
        relevant == SelectSeq(flights, LAMBDA f : f.category \in {"SF", "135"})
        keyed == SelectSeq(relevant, LAMBDA f : ~Falsy(f.aircraftId))
    IN  /\ \A n \in DOMAIN byAircraft :
               /\ ~Falsy(byAircraft[n].aircraftId)
               /\ \A k \in DOMAIN byAircraft[n].aircraftFlights :
                      ~Falsy(byAircraft[n].aircraftFlights[k].aircraftId)
        /\ \A n \in DOMAIN byPassengers : byPassengers[n].id \notin {NULL, "", "null"}
        /\ Sum([n \in DOMAIN byPassengers |-> byPassengers[n].flights]) = Len(keyed)
        /\ Sum([n \in DOMAIN byPassengers |-> byPassengers[n].passengers])
               = Sum([i \in DOMAIN keyed |-> numberOr0(keyed[i].passengerCount)])
        /\ \A n \in DOMAIN byFuel : ~Falsy(byFuel[n].aircraftId)
        /\ Sum([n \in DOMAIN pilotStats(flights) |-> pilotStats(flights)[n].flights])
               = Len(flights)
        /\ Sum([n \in DOMAIN routeStats(flights) |-> routeStats(flights)[n].flights])
               = Len(flights)
        /\ Sum([n \in DOMAIN passengersByRoute(flights) |->
                   passengersByRoute(flights)[n].flights]) = Len(relevant)

\* ------------------------------------------------------------------ fallback labels

\* C21: a flight without route is in the group labelled "Local" of every grouping by
\* route, in the summary (routeStats), in the passenger summary (passengersByRoute) and
\* in the route analytics table (chartData) alike, and a flight without pilotName is in
\* the group labelled "Unknown" of the grouping by pilot: the flights counted under
\* "Local", resp. "Unknown", are the flights of the grouping that have no route, resp.
\* no pilotName, and no route group is labelled otherwise for them.
SameRouteLabelEverywhere ==
    view = "statistics" =>
    LET relevant == SelectSeq(flights, LAMBDA f : f.category \in {"SF", "135"})
        chart == chartData(flights, targetTimes, selectedMonth, selectedYear,
                           selectedAircraft, selectedPilot, sortField, sortDirection)
        shown == Sum([n \in DOMAIN chart |-> chart[n].flightCount])
        Counted(rows, label, count(_), key(_)) ==
            Sum([n \in DOMAIN rows |-> IF key(rows[n]) = label THEN count(rows[n]) ELSE 0])
        Routed(list) == Len(SelectSeq(list, LAMBDA f : ~Falsy(f.route)))
    IN  /\ Counted(routeStats(flights), "Local", LAMBDA row : row.flights,
                   LAMBDA row : row.name)
               = Len(SelectSeq(flights, LAMBDA f : Falsy(f.route)))
        /\ Counted(passengersByRoute(flights), "Local", LAMBDA row : row.flights,
                   LAMBDA row : row.name)
               = Len(SelectSeq(relevant, LAMBDA f : Falsy(f.route)))
        /\ Counted(pilotStats(flights), "Unknown", LAMBDA row : row.flights,
                   LAMBDA row : row.name)
               = Len(SelectSeq(flights, LAMBDA f : Falsy(f.pilotName)))
        \* the table counts its flights without route under "Local" as well
        /\ \A n \in DOMAIN chart : chart[n].route # "Unknown"
        /\ selectedPilot = "all-pilots" /\ selectedAircraft = "all-aircraft"
           /\ selectedMonth = "all-months" /\ selectedYear = "all-years"
           => Counted(chart, "Local", LAMBDA row : row.flightCount, LAMBDA row : row.route)
                  = Len(SelectSeq(flights, LAMBDA f : Falsy(f.route)))

\* ------------------------------------------------------------------ monthly trend buckets

\* C22: the monthly trend has exactly 12 buckets, one per calendar month of the 12
\* months that end with the current month, in chronological order, whatever the current
\* date and the stored flights; a month without flight has passengers = 0, flights = 0
\* and average = 0; and every flight of category SF or 135 whose date is in one of the
\* 12 months is counted in exactly one bucket (the buckets count as many flights as
\* there are such flights).
TwelveMonthlyBuckets ==
    view = "passengers" /\ monthlyData # << >> =>
    LET MonthOf(date) == 12 * date.y + (date.m - 1)
        Names == <<"Jan", "Feb", "Mar", "Apr", "May", "Jun", "Jul", "Aug", "Sep", "Oct",
                   "Nov", "Dec">>
        relevant == SelectSeq(flights, LAMBDA f : f.category \in {"SF", "135"})
        inWindow == SelectSeq(relevant, LAMBDA f :
                        MonthOf(f.date) \in (MonthOf(now) - 11)..MonthOf(now))
    IN  /\ Len(monthlyData) = 12
        /\ \A k \in 1..12 :
               /\ k \in DOMAIN monthlyData
               /\ monthlyData[k].name
                      = <<Names[((MonthOf(now) - 12 + k) % 12) + 1],
                          (MonthOf(now) - 12 + k) \div 12>>
               /\ monthlyData[k].flights = 0
                      => monthlyData[k].passengers = 0 /\ monthlyData[k].average = 0
        /\ Sum([k \in DOMAIN monthlyData |-> monthlyData[k].flights]) = Len(inWindow)

\* ------------------------------------------------------------------ recomputation

\* C23: the statistics of the summary are those of the current collections.  In every
\* state of the summary, whatever fetch results and notifications came before, each of
\* aircraftStats, pilotStats and routeStats has one row per key of the current flights,
\* the row counts the current flights of that key and adds up their durations, the
\* aircraft row carries the tail number the current aircraft collection has for its id,
\* and there is no row for a key that no current flight has.
StatisticsOfCurrentCollections ==
    view = Summary =>
    LET pilotOf(f) == IF Falsy(f.pilotName) THEN "Unknown" ELSE f.pilotName
        routeOf(f) == IF Falsy(f.route) THEN "Local" ELSE f.route
        keyed == SelectSeq(flights, LAMBDA f : ~Falsy(f.aircraftId))
        Own(list, key(_), k) == SelectSeq(list, LAMBDA f : key(f) = k)
        Duration(fs) == Sum([i \in DOMAIN fs |-> aircraftStatsHours(fs[i])])
        Grouped(rows, list, key(_), name(_), count(_), hours(_)) ==
            /\ \A n \in DOMAIN rows :
                   /\ count(rows[n]) = Len(Own(list, key, name(rows[n])))
                   /\ count(rows[n]) > 0
                   /\ hours(rows[n]) = Duration(Own(list, key, name(rows[n])))
            /\ \A i \in DOMAIN list : \E n \in DOMAIN rows : name(rows[n]) = key(list[i])
            /\ \A n, k \in DOMAIN rows : name(rows[n]) = name(rows[k]) => n = k
    IN  /\ Grouped(aircraftStats(flights, aircraft), keyed, LAMBDA f : f.aircraftId,
                   LAMBDA row : row.id, LAMBDA row : row.flightCount,
                   LAMBDA row : row.totalHours)
        /\ Grouped(pilotStats(flights), flights, pilotOf, LAMBDA row : row.name,
                   LAMBDA row : row.flights, LAMBDA row : row.hours)
        /\ Grouped(routeStats(flights), flights, routeOf, LAMBDA row : row.name,
                   LAMBDA row : row.flights, LAMBDA row : row.hours)
        /\ \A n \in DOMAIN aircraftStats(flights, aircraft) :
               LET row == aircraftStats(flights, aircraft)[n]
                   known == SelectSeq(aircraft, LAMBDA a : a.id = row.id)
               IN  row.tailNumber = IF known = << >> \/ Falsy(known[1].tailNumber)
                                    THEN "Unknown" ELSE known[1].tailNumber

\* A flight the last render showed is no longer in the collection, and the route
\* statistics have lost the row it made.
RowGoneWithItsFlight ==
    /\ view = Summary
    /\ Len(flightsRendered) = 2
    /\ Len(flights) = 1
    /\ Len(routeStats(flightsRendered)) = 2
    /\ Len(routeStats(flights)) = 1
    /\ aircraft # << >>

\* ------------------------------------------------------------------ admin gating

\* C24: in every render state of a view, error and loading states included, the admin
\* controls (TargetManagement, the edit and delete buttons of a flight, the Admin Review
\* button of the safety list) are rendered only when isAdmin is true.
AdminControlsGated ==
    adminControls # {} => isAdmin

\* ------------------------------------------------------------------ identity uniqueness

\* C25: the fetch results holding no id twice, the flights of the summary never hold
\* two flights with the same id, and its aircraft never two aircraft with the same id,
\* whatever notifications were handled before, between and after the two stores of
\* fetchData.
UniqueIds ==
    view = Summary =>
        /\ \A i, j \in DOMAIN flights : flights[i].id = flights[j].id => i = j
        /\ \A i, j \in DOMAIN aircraft : aircraft[i].id = aircraft[j].id => i = j

\* Notifications have filled both collections while fetchData awaits the aircraft:
\* every further INSERT is for an id that is present.
CollectionsFullBeforeFetchEnds ==
    /\ view = Summary
    /\ pc.fetchData = "getAllAircraft"
    /\ Ids(flights) = FlightIds
    /\ Ids(aircraft) = AircraftIds
    /\ flightsRendered = flights

\* ------------------------------------------------------------------ fetch completion

\* C26: the store of a successful fetch replaces the collection.  Whatever the flights
\* are when getAllFlights answers with data (the notifications handled while loading
\* included), the flights are exactly the fetched list right after the step, and
\* likewise the aircraft are the fetched aircraft, normalized, after getAllAircraft.
FetchReplacesCollection ==
    [][/\ Awaits(Summary, "fetchData", "getAllFlights") /\ mounted
          => \A l \in FetchedFlightLists : FetchDataFlights(Ok(l)) => flights' = l
       /\ Awaits(Summary, "fetchData", "getAllAircraft") /\ mounted
          => \A l \in FetchedAircraftLists :
                 FetchDataAircraft(Ok(l)) => aircraft' = normalizeAircraftArray(l)]_vars

\* The flights have been stored by the fetch and the summary is still loading, and an
\* aircraft notification has been applied meanwhile.
NotifiedWhileLoading ==
    /\ view = Summary /\ mounted
    /\ isLoading
    /\ pc.fetchData = "getAllAircraft"
    /\ "getAllFlights" \notin failed
    /\ Len(flights) = MaxFlightId
    /\ aircraft # << >>

\* ------------------------------------------------------------------ target-time refresh

\* C27: the refresh of the target times is non-reentrant: a call of fetchTargetTimes
\* while a refresh is pending issues no query, so that at most one query of
\* fetchTargetTimes is in flight at a time.
RefreshNonReentrant == view = Analytics => selects <= 1

\* ------------------------------------------------------------------ hobbs time of the form

\* C28: in the flight form hobbsTime is always derived from the tach readings: after
\* every edit of tachStart or tachEnd, and after an existing flight has been loaded into
\* the form by reset, hobbsTime is 1.2 times the tach difference (0 for a negative one),
\* whatever hobbsTime is stored with the flight.  Stated of the form once the effects of
\* its last render have run (no run of the hobbsTime effect is due).
HobbsDerivedFromTach ==
    (/\ view = Form /\ mounted
     /\ effectDeps = <<formValues.tachStart, formValues.tachEnd>>) =>
        LET tachDiff == IF formValues.tachEnd - formValues.tachStart > 0
                        THEN formValues.tachEnd - formValues.tachStart ELSE 0
        IN  formValues.hobbsTime = (tachDiff * 12) \div 10

\* ------------------------------------------------------------------ submission of the form

\* C29: onSubmit issues one mutation per submission, createFlight when the id of the
\* path is 'new' and updateFlight otherwise, and none while one is pending; the router
\* is sent to the flight list only when the mutation reports success; and in every
\* outcome isSubmitting is true while the mutation is pending and false once onSubmit
\* has ended (the form being mounted).
OneMutationPerSubmission ==
    [][LET Mutations == {"createFlight", "updateFlight"}
           pending == pc.onSubmit \in Mutations
           succeededToasts == {"Flight created successfully.", "Flight updated successfully."}
       IN  view = Form =>
             /\ (~pending /\ pc'.onSubmit \in Mutations) =>
                    /\ pc'.onSubmit = (IF location = NewFlightPath THEN "createFlight"
                                       ELSE "updateFlight")
                    /\ requests' = requests \cup {pc'.onSubmit}
                    /\ isSubmitting'
                    /\ location' = location
             /\ (pending \/ pc'.onSubmit = pc.onSubmit) =>
                    requests' \cap Mutations = requests \cap Mutations
             /\ (pending /\ mounted) => isSubmitting
             /\ (pending /\ pc'.onSubmit # pc.onSubmit) =>
                    /\ pc'.onSubmit = "done"
                    /\ mounted => ~isSubmitting'
                    /\ location' # location =>
                           location' = "/flights" /\ toast' \in succeededToasts]_vars

\* An update was rejected: the form is still on its path, ready to be submitted again.
UpdateRejectedFormStays ==
    /\ view = Form /\ mounted
    /\ pc.onSubmit = "done"
    /\ "updateFlight" \in failed
    /\ toast = "Failed to update flight."
    /\ location = "/flights/1"
    /\ ~isSubmitting

\* ------------------------------------------------------------------ sorting and filters

\* C30: on the route analytics table a step that changes the sorting (toggleSort) flips
\* sortDirection and keeps sortField when the column is the current one, and sets the
\* new sortField with direction 'asc' otherwise, and changes no filter selection and no
\* collection; a step that changes a filter selection (a select, resetFilters) keeps
\* sortField and sortDirection and the collections, and when it changes more than one
\* selection (resetFilters) all four are left at their wildcard values.
SortAndFiltersApart ==
    [][LET filters == <<selectedMonth, selectedYear, selectedAircraft, selectedPilot>>
           filters2 == <<selectedMonth', selectedYear', selectedAircraft', selectedPilot'>>
           changed == {i \in 1..4 : filters[i] # filters2[i]}
           collections == <<flights, targetTimes>>
           collections2 == <<flights', targetTimes'>>
       IN  view = "statistics" =>
             /\ (sortField' # sortField \/ sortDirection' # sortDirection) =>
                    /\ filters2 = filters
                    /\ collections2 = collections
                    /\ sortField' = sortField =>
                           sortDirection' = (IF sortDirection = "asc" THEN "desc" ELSE "asc")
                    /\ sortField' # sortField => sortDirection' = "asc"
             /\ changed # {} =>
                    /\ sortField' = sortField /\ sortDirection' = sortDirection
                    /\ collections2 = collections
                    /\ Cardinality(changed) > 1 =>
                           filters2 = <<"all-months", "all-years", "all-aircraft",
                                        "all-pilots">>]_vars

\* The table was sorted by another column and then turned to descending, and the filters
\* were reset after a selection: the sorting is kept.
SortingKeptByReset ==
    /\ view = "statistics"
    /\ sortField = "averageTime" /\ sortDirection = "desc"
    /\ selectedMonth = "all-months" /\ selectedYear = "all-years"
    /\ selectedAircraft = "all-aircraft" /\ selectedPilot = "all-pilots"
    /\ flights # << >>

====
